---- MODULE Spec2Model ----
(***************************************************************************)
(* JiraGenie backend: JiraService.create_issues and the three creation     *)
(* ladders create_epic / create_story / create_subtask                     *)
(* (src/backend/jira_service.py), driven by a tracker whose answer to each *)
(* REST call is arbitrary and by a client that may disconnect at any time. *)
(***************************************************************************)
EXTENDS Integers, Sequences, FiniteSets, TLC

\* ------------------------------------------------------------------ bounds
MaxEpics == 2
MaxStories == 2
MaxSubtasks == 1
MaxItems == 3
MaxMalformed == 1

\* --------------------------------------------------------------- constants
None == "None"

\* settings.JIRA_EPIC_ISSUE_TYPE / JIRA_STORY_ISSUE_TYPE / JIRA_SUBTASK_ISSUE_TYPE
JIRA_EPIC_ISSUE_TYPE == "Epic"

JIRA_STORY_ISSUE_TYPE == "Story"

JIRA_SUBTASK_ISSUE_TYPE == "Sub-task"

\* variant: the fixed identifiers in another order
common_epic_name_fields_swapped == <<"customfield_10012", "customfield_10011", "customfield_10013">>

\* the fixed Epic-Name identifiers create_epic appends to its candidates
common_epic_name_fields == <<"customfield_10011", "customfield_10012", "customfield_10013">>

\* the fallback of _get_epic_link_field
DefaultEpicLinkField == "customfield_10014"

\* the string create_issues appends on a positive cancellation check
CancelledError == [kind |-> "cancelled", summary |-> <<0, 0, 0>>]

\* the string the handler of create_issues appends: "Error creating issues in Jira: ..."
ExceptionError == [kind |-> "exception", summary |-> <<0, 0, 0>>]

\* -------------------------------------------------------------- documents
\* A shape gives, for every epic, the number of subtasks of each of its stories.
StoryShapes == UNION {[1..n -> 0..MaxSubtasks] : n \in 0..MaxStories}

RECURSIVE SumSeq(_)
SumSeq(s) == IF s = <<>> THEN 0 ELSE Head(s) + SumSeq(Tail(s))

EpicItems(ss) == 1 + Len(ss) + SumSeq(ss)

RECURSIVE DocItems(_)
DocItems(sh) == IF sh = <<>> THEN 0 ELSE EpicItems(Head(sh)) + DocItems(Tail(sh))

Shapes == {sh \in UNION {[1..n -> StoryShapes] : n \in 0..MaxEpics} : DocItems(sh) <= MaxItems}

\* the items of a shape, each named by its position <<epic, story, subtask>>
EpicPaths(sh) == {<<e, 0, 0>> : e \in 1..Len(sh)}

StoryPaths(sh) == UNION {{<<e, s, 0>> : s \in 1..Len(sh[e])} : e \in 1..Len(sh)}

SubtaskPaths(sh) == UNION {UNION {{<<e, s, t>> : t \in 1..sh[e][s]} : s \in 1..Len(sh[e])} : e \in 1..Len(sh)}

ShapePaths(sh) == EpicPaths(sh) \cup StoryPaths(sh) \cup SubtaskPaths(sh)

SmallSubsets(S, k) == {x \in SUBSET S : Cardinality(x) <= k}

\* the dict the AI returned: data['epics'], every item with or without a
\* 'summary' key, every story with or without a truthy 'priority'
MkSubtask(e, s, t, bad) == [path |-> <<e, s, t>>, hasSummary |-> <<e, s, t>> \notin bad]

MkStory(sh, e, s, bad, prio) ==
    [path |-> <<e, s, 0>>,
     hasSummary |-> <<e, s, 0>> \notin bad,
     priority |-> <<e, s, 0>> \in prio,
     subtasks |-> [t \in 1..sh[e][s] |-> MkSubtask(e, s, t, bad)]]

MkEpic(sh, e, bad, prio) ==
    [path |-> <<e, 0, 0>>,
     hasSummary |-> <<e, 0, 0>> \notin bad,
     stories |-> [s \in 1..Len(sh[e]) |-> MkStory(sh, e, s, bad, prio)]]

MkDoc(sh, bad, prio) == [e \in 1..Len(sh) |-> MkEpic(sh, e, bad, prio)]

Docs ==
    UNION {{MkDoc(sh, bad, prio) : bad \in SmallSubsets(ShapePaths(sh), MaxMalformed),
                                   prio \in SUBSET StoryPaths(sh)} : sh \in Shapes}

\* ------------------------------------------------------ schema discovery
\* str.lower() on the issue-type names the tracker can return
Lower(name) ==
    CASE name = "Epic" -> "epic"
      [] name = "Story" -> "story"
      [] name = "Task" -> "task"
      [] name = "Bug" -> "bug"
      [] name = "Sub-task" -> "sub-task"
      [] name = "Subtask" -> "subtask"
      [] name = "User Story" -> "user story"
      [] name = "Feature" -> "feature"
      [] name = "Improvement" -> "improvement"
      [] name = "Incident" -> "incident"
      [] OTHER -> name

\* 'epic' in name.lower()
HasEpicToken(name) == Lower(name) \in {"epic"}

\* 'subtask' in name.lower() or 'sub-task' in name.lower()
HasSubtaskToken(name) == Lower(name) \in {"subtask", "sub-task"}

\* the alternatives tried from the other end
common_story_types_reversed == <<"Bug", "Feature", "User Story", "Task", "Story">>

common_story_types == <<"Story", "Task", "User Story", "Feature", "Bug">>

common_subtask_types == <<"Sub-task", "Subtask", "Sub task">>

\* the index of the first TRUE of a sequence of tests (0: none): a for loop
\* that returns at its first hit
FirstTrue(tests) ==
    IF \E i \in 1..Len(tests) : tests[i]
    THEN CHOOSE i \in 1..Len(tests) : tests[i] /\ \A j \in 1..(i - 1) : ~tests[j]
    ELSE 0

Available(types, name) == \E i \in 1..Len(types) : Lower(types[i]) = Lower(name)

_detect_story_issue_type(types) ==
    LET common == FirstTrue([i \in 1..Len(common_story_types) |-> Available(types, common_story_types[i])])
        other == FirstTrue([i \in 1..Len(types) |-> ~HasEpicToken(types[i]) /\ ~HasSubtaskToken(types[i])])
    IN  IF Available(types, JIRA_STORY_ISSUE_TYPE) THEN JIRA_STORY_ISSUE_TYPE
        ELSE IF common # 0 THEN common_story_types[common]
        ELSE IF other # 0 THEN types[other]
        ELSE JIRA_STORY_ISSUE_TYPE

_detect_subtask_issue_type(types) ==
    LET common == FirstTrue([i \in 1..Len(common_subtask_types) |-> Available(types, common_subtask_types[i])])
    IN  IF Available(types, JIRA_SUBTASK_ISSUE_TYPE) THEN JIRA_SUBTASK_ISSUE_TYPE
        ELSE IF common # 0 THEN common_subtask_types[common]
        ELSE JIRA_SUBTASK_ISSUE_TYPE

\* what the probes of __init__ found on the tracker the service is connected to:
\* a cloud project, a tracker on which every probe failed, a project with its
\* own field identifiers and type names
Deployments ==
    {[epic_name_field |-> "customfield_10011", epic_link_field |-> DefaultEpicLinkField,
      available_issue_types |-> <<"Epic", "Story", "Task", "Bug", "Sub-task">>],
     [epic_name_field |-> None, epic_link_field |-> DefaultEpicLinkField,
      available_issue_types |-> <<>>],
     [epic_name_field |-> "customfield_10020", epic_link_field |-> "customfield_10008",
      available_issue_types |-> <<"Epic", "Task", "Bug", "Subtask">>]}

\* ------------------------------------------------------------------ state
VARIABLES
    doc,                    \* data['epics'] of the request
    request_obj,            \* whether create_issues got a Request to poll
    disconnected,           \* what request_obj.is_disconnected() answers
    configured,             \* self.jira is not None and self.project_key is not None
    epic_name_field,        \* self.epic_name_field
    epic_link_field,        \* self.epic_link_field
    available_issue_types,  \* self.available_issue_types (the names)
    story_issue_type,       \* self.story_issue_type
    subtask_issue_type,     \* self.subtask_issue_type
    pc,                     \* the statement create_issues (or the ladder it called) is at
    cur,                    \* <<epic, story, subtask>>: the item of the loops
    results,                \* the dict create_issues returns
    epic_key,               \* epic_result['key']
    story_key,              \* story_result['key']
    local,                  \* the locals of the creation ladder that is running
    nextKey,                \* the tracker: the key it assigns next
    calls,                  \* the create requests the running create_* has sent
    updates,                \* how many update requests the running create_epic has sent
    contacted,              \* the items a tracker call was made for
    attempted,              \* the items create_* was called for, in order
    polls,                  \* the items is_disconnected() was awaited before, in order
    rejected,               \* whether the tracker has rejected a call of this request
    last_accepted,          \* whether the tracker accepted the last call of this request
    last_error,             \* what str(e).lower() of the last rejection held, {} otherwise
    raised,                 \* the create_* whose exception reached create_issues
    text,                   \* response.text of the model, as tokens
    payload,                \* the JSON value the model wrote into its response
    structured_data,        \* what extract_json(text) returned
    analysis,               \* how run_ai_analysis ended
    credentials,            \* whether the four JIRA_* settings are all set
    probes,                 \* the discovery calls __init__ has made, with their answers
    response,               \* what the create-from-file endpoint answered
    me,                     \* which of the two requests on the service is running
    other,                  \* the locals of the request that is suspended
    owner,                  \* <<key, request>>: whose call the tracker gave the key to
    since,                  \* the key the tracker assigned next when `me` resumed
    endpoint                \* the endpoint the request came to

service == <<configured, epic_name_field, epic_link_field, available_issue_types,
             story_issue_type, subtask_issue_type>>

schema == <<configured, epic_link_field, available_issue_types, subtask_issue_type>>

\* the state of run_ai_analysis
extraction == <<text, payload, structured_data, analysis>>

\* what the walk of one request never writes
\* the state of the construction of the service and of the endpoint
construction == <<credentials, probes, response, endpoint>>

\* the state of two requests that share the service
sharing == <<me, other, owner, since>>

elsewhere == <<extraction, construction, sharing>>

input == <<doc, request_obj, elsewhere>>

walk == <<pc, cur, results, epic_key, story_key>>

history == <<calls, updates, contacted, attempted, polls, rejected, last_accepted, last_error, raised>>

vars == <<doc, request_obj, disconnected, configured, epic_name_field, epic_link_field,
          available_issue_types, story_issue_type, subtask_issue_type, pc, cur, results,
          epic_key, story_key, local, nextKey, calls, updates, contacted, attempted,
          polls, rejected, last_accepted, last_error, raised, text, payload, structured_data, analysis,
          credentials, probes, response, me, other, owner, since, endpoint>>

End == <<0, 0, 0>>

NoIssue == [key |-> 0, self |-> 0, summary |-> End]

NoLocal == [candidates |-> <<>>, i |-> 0, key |-> 0, typeError |-> FALSE, priorityError |-> FALSE]

\* the locals of a create_issues(data, request_obj) that was called and has not run yet
IdleFrame(data) ==
    [doc |-> data, request_obj |-> TRUE, disconnected |-> FALSE, pc |-> "idle", cur |-> End,
     results |-> [epics |-> <<>>, stories |-> <<>>, subtasks |-> <<>>, errors |-> <<>>],
     epic_key |-> 0, story_key |-> 0, local |-> NoLocal, calls |-> <<>>, updates |-> 0,
     contacted |-> {}, attempted |-> <<>>, polls |-> <<>>, rejected |-> FALSE,
     last_accepted |-> FALSE, last_error |-> {}, raised |-> None]

\* there is no second request, and create_issues is called on its own
Alone ==
    /\ endpoint = None
    /\ me = 1
    /\ other = IdleFrame(<<>>)
    /\ owner = {}
    /\ since = 1

\* the endpoint has not answered
NoResponse == [answered |-> FALSE]

\* run_ai_analysis is not part of the request
\* run_ai_analysis has not been called for this request
NotAnalysed == [kind |-> "none", status_code |-> 0, detail |-> <<>>]

NoAnalysis ==
    /\ text = <<>>
    /\ payload = <<>>
    /\ structured_data = None
    /\ analysis = NotAnalysed

Init ==
    /\ doc \in Docs
    /\ request_obj \in BOOLEAN
    /\ disconnected = FALSE
    /\ \/ /\ configured = TRUE
          /\ \E d \in Deployments :
                /\ epic_name_field = d.epic_name_field
                /\ epic_link_field = d.epic_link_field
                /\ available_issue_types = d.available_issue_types
                /\ story_issue_type = _detect_story_issue_type(d.available_issue_types)
                /\ subtask_issue_type = _detect_subtask_issue_type(d.available_issue_types)
       \/ /\ configured = FALSE
          /\ epic_name_field = None
          /\ epic_link_field = None
          /\ available_issue_types = <<>>
          /\ story_issue_type = None
          /\ subtask_issue_type = None
    /\ pc = "idle"
    /\ cur = End
    /\ results = [epics |-> <<>>, stories |-> <<>>, subtasks |-> <<>>, errors |-> <<>>]
    /\ epic_key = 0
    /\ story_key = 0
    /\ local = NoLocal
    /\ nextKey = 1
    /\ calls = <<>>
    /\ updates = 0
    /\ contacted = {}
    /\ attempted = <<>>
    /\ polls = <<>>
    /\ rejected = FALSE
    /\ last_accepted = FALSE
    /\ last_error = {}
    /\ raised = None
    /\ NoAnalysis
    /\ credentials = configured
    /\ probes = <<>>
    /\ response = NoResponse
    /\ Alone

\* ------------------------------------------------- the walk of create_issues
Level(p) == IF p[2] = 0 THEN "epic" ELSE IF p[3] = 0 THEN "story" ELSE "subtask"

ListOf(level) == IF level = "epic" THEN "epics" ELSE IF level = "story" THEN "stories" ELSE "subtasks"

Item(p) ==
    IF p[2] = 0 THEN doc[p[1]]
    ELSE IF p[3] = 0 THEN doc[p[1]].stories[p[2]]
    ELSE doc[p[1]].stories[p[2]].subtasks[p[3]]

\* the next iteration of `for epic in data.get('epics', [])`
NextEpic(e) == IF e < Len(doc) THEN <<e + 1, 0, 0>> ELSE End

\* variant: the stories of an epic are walked from the last to the first
NextStoryReversed(e, s) ==
    IF s = 0 THEN (IF Len(doc[e].stories) > 0 THEN <<e, Len(doc[e].stories), 0>> ELSE NextEpic(e))
    ELSE IF s > 1 THEN <<e, s - 1, 0>>
    ELSE NextEpic(e)

\* the next iteration of `for story in epic.get('stories', [])`
NextStory(e, s) == IF s < Len(doc[e].stories) THEN <<e, s + 1, 0>> ELSE NextEpic(e)

\* the next iteration of `for subtask in story.get('subtasks', [])`
NextSubtask(e, s, t) == IF t < Len(doc[e].stories[s].subtasks) THEN <<e, s, t + 1>> ELSE NextStory(e, s)

\* variant: a story loop that is not nested under `if epic_result:`
NextSiblingUnnested(p) ==
    IF Level(p) = "epic" THEN NextStory(p[1], 0)
    ELSE IF Level(p) = "story" THEN NextStory(p[1], p[2])
    ELSE NextSubtask(p[1], p[2], p[3])

\* where the walk goes once item p is done with (created without children left, or failed)
NextSibling(p) ==
    IF Level(p) = "epic" THEN NextEpic(p[1])
    ELSE IF Level(p) = "story" THEN NextStory(p[1], p[2])
    ELSE NextSubtask(p[1], p[2], p[3])

\* where the walk goes once item p is created: into its children
FirstChild(p) ==
    IF Level(p) = "epic" THEN NextStory(p[1], 0)
    ELSE IF Level(p) = "story" THEN NextSubtask(p[1], p[2], 0)
    ELSE NextSubtask(p[1], p[2], p[3])

Goto(p) ==
    /\ pc' = IF p = End THEN "done" ELSE "check"
    /\ cur' = p

\* variant: the handler answers with a fresh result holding only its error
HandlerFresh ==
    /\ results' = [epics |-> <<>>, stories |-> <<>>, subtasks |-> <<>>, errors |-> <<ExceptionError>>]
    /\ pc' = "done"
    /\ cur' = cur
    /\ UNCHANGED <<epic_key, story_key>>

\* the handler of create_issues: except Exception -> one error string, return
Handler ==
    /\ results' = [results EXCEPT !.errors = Append(@, ExceptionError)]
    /\ pc' = "done"
    /\ cur' = cur
    /\ UNCHANGED <<epic_key, story_key>>

\* variant: the children of an item are walked whether or not it was created
ReturnedUnchecked(issue) ==
    IF issue.key # 0
    THEN /\ results' = [results EXCEPT ![ListOf(Level(cur))] = Append(@, issue)]
         /\ epic_key' = IF Level(cur) = "epic" THEN issue.key ELSE epic_key
         /\ story_key' = IF Level(cur) = "story" THEN issue.key ELSE story_key
         /\ Goto(FirstChild(cur))
    ELSE IF Item(cur).hasSummary
    THEN /\ results' = [results EXCEPT !.errors = Append(@, [kind |-> Level(cur), summary |-> cur])]
         /\ Goto(FirstChild(cur))
         /\ UNCHANGED <<epic_key, story_key>>
    ELSE Handler

\* variant: an item that could not be created leaves no error behind
ReturnedSilent(issue) ==
    IF issue.key # 0
    THEN /\ results' = [results EXCEPT ![ListOf(Level(cur))] = Append(@, issue)]
         /\ epic_key' = IF Level(cur) = "epic" THEN issue.key ELSE epic_key
         /\ story_key' = IF Level(cur) = "story" THEN issue.key ELSE story_key
         /\ Goto(FirstChild(cur))
    ELSE IF Item(cur).hasSummary
    THEN /\ results' = results
         /\ Goto(NextSibling(cur))
         /\ UNCHANGED <<epic_key, story_key>>
    ELSE Handler

\* create_* returned `issue` (NoIssue: None) for the item cur
Returned(issue) ==
    IF issue.key # 0
    THEN /\ results' = [results EXCEPT ![ListOf(Level(cur))] = Append(@, issue)]
         /\ epic_key' = IF Level(cur) = "epic" THEN issue.key ELSE epic_key
         /\ story_key' = IF Level(cur) = "story" THEN issue.key ELSE story_key
         /\ Goto(FirstChild(cur))
    ELSE IF Item(cur).hasSummary
    THEN /\ results' = [results EXCEPT !.errors = Append(@, [kind |-> Level(cur), summary |-> cur])]
         /\ Goto(NextSibling(cur))
         /\ UNCHANGED <<epic_key, story_key>>
    ELSE Handler    \* item['summary'] in the f-string raises KeyError

\* variant: only the checks of the inner loops look at the connection
IsCancelledInnerOnly == request_obj /\ disconnected /\ Level(cur) # "epic"

\* `request_obj and await request_obj.is_disconnected()`
IsCancelled == request_obj /\ disconnected

\* create_issues is called
Begin ==
    /\ pc = "idle"
    /\ Goto(NextEpic(0))
    /\ UNCHANGED <<input, disconnected, service, results, epic_key, story_key, local, nextKey, history>>

\* the client goes away
Disconnect ==
    /\ request_obj
    /\ ~disconnected
    /\ pc # "done"
    /\ disconnected' = TRUE
    /\ UNCHANGED <<input, service, walk, local, nextKey, history>>

\* ---------------------------------------------------------- the tracker
\* what str(e).lower() of a rejection holds, as far as the ladders look at it:
\*   "field error": 'field' with 'cannot be set', 'invalid' or 'not found'
\*   "required":    'required' or 'must be provided'
\*   "issue type":  'issue type' or 'valid issue type'
\*   "priority":    'priority'
EpicResponses == [ok : {TRUE}, msg : {{}}] \cup [ok : {FALSE}, msg : SUBSET {"field error", "required"}]

StoryResponses == [ok : {TRUE}, msg : {{}}] \cup [ok : {FALSE}, msg : SUBSET {"issue type", "priority"}]

PlainResponses == [ok : BOOLEAN, msg : {{}}]

\* update_issue / update_issue_field: done, no such method on the client, rejected
UpdateResponses == {"ok", "attribute error", "error"}

\* response = self.jira.issue_create(...): {'key': ..., 'self': ...} and the summary echoed
NewIssue == [key |-> nextKey, self |-> nextKey, summary |-> cur]

BaseRequest ==
    [summary |-> cur, issuetype |-> None, name_field |-> None,
     priority |-> FALSE, link_field |-> None, link |-> 0, parent |-> 0]

\* one issue_create leaves for the tracker and is answered with resp
Answered(req, resp) ==
    /\ calls' = Append(calls, req)
    /\ updates' = updates
    /\ contacted' = contacted \cup {cur}
    /\ nextKey' = IF resp.ok THEN nextKey + 1 ELSE nextKey
    /\ rejected' = (rejected \/ ~resp.ok)
    /\ last_accepted' = resp.ok
    /\ last_error' = resp.msg

\* the same where the handler does not read the message of a rejection
Send(req, accepted) == Answered(req, [ok |-> accepted, msg |-> {}])

\* one update_issue / update_issue_field leaves for the tracker and is answered
SendUpdate(accepted) ==
    /\ updates' = updates + 1
    /\ rejected' = (rejected \/ ~accepted)
    /\ last_accepted' = accepted
    /\ last_error' = {}
    /\ UNCHANGED <<calls, contacted, nextKey>>

\* ------------------------------------------------------------ create_epic
\* variant: the fixed identifiers are appended twice
EpicNameCandidatesTwice ==
    (IF epic_name_field # None THEN <<epic_name_field>> ELSE <<>>)
        \o common_epic_name_fields \o common_epic_name_fields

EpicNameCandidates ==
    (IF epic_name_field # None THEN <<epic_name_field>> ELSE <<>>) \o common_epic_name_fields

EpicRequest(field_id) == [BaseRequest EXCEPT !.issuetype = JIRA_EPIC_ISSUE_TYPE, !.name_field = field_id]

\* variant: the second test of the except branch is inverted
EpicErrorContinuesInverted(msg) ==
    IF "field error" \in msg THEN TRUE
    ELSE IF "required" \in msg THEN FALSE
    ELSE TRUE

\* the except branch of the candidate loop: continue (TRUE) or break (FALSE)
EpicErrorContinues(msg) ==
    IF "field error" \in msg THEN TRUE
    ELSE IF "required" \notin msg THEN FALSE
    ELSE TRUE

\* create_epic from its call to its first tracker call
EnterEpic ==
    IF ~configured
    THEN Returned(NoIssue) /\ local' = NoLocal /\ raised' = raised
    ELSE IF ~Item(cur).hasSummary
    THEN Handler /\ local' = NoLocal /\ raised' = "create_epic"   \* epic_data['summary']: KeyError outside any try
    ELSE /\ pc' = "epic_try"
         /\ local' = [NoLocal EXCEPT !.candidates = EpicNameCandidates, !.i = 1]
         /\ UNCHANGED <<cur, results, epic_key, story_key, raised>>

\* variant: the identifier is remembered before the tracker has answered
EpicTryHasty ==
    /\ pc = "epic_try"
    /\ LET field_id == local.candidates[local.i] IN
       \E resp \in EpicResponses :
          /\ Answered(EpicRequest(field_id), resp)
          /\ epic_name_field' = field_id
          /\ IF resp.ok
             THEN /\ Returned(NewIssue)
                  /\ local' = NoLocal
             ELSE /\ IF EpicErrorContinues(resp.msg) /\ local.i < Len(local.candidates)
                     THEN pc' = "epic_try" /\ local' = [local EXCEPT !.i = @ + 1]
                     ELSE pc' = "epic_plain" /\ local' = local
                  /\ UNCHANGED <<cur, results, epic_key, story_key>>
    /\ UNCHANGED <<input, disconnected, schema, story_issue_type, attempted, polls, raised>>

\* variant: the identifier that worked is not remembered
EpicTryForgetful ==
    /\ pc = "epic_try"
    /\ LET field_id == local.candidates[local.i] IN
       \E resp \in EpicResponses :
          /\ Answered(EpicRequest(field_id), resp)
          /\ epic_name_field' = epic_name_field
          /\ IF resp.ok
             THEN /\ Returned(NewIssue)
                  /\ local' = NoLocal
             ELSE /\ IF EpicErrorContinues(resp.msg) /\ local.i < Len(local.candidates)
                     THEN pc' = "epic_try" /\ local' = [local EXCEPT !.i = @ + 1]
                     ELSE pc' = "epic_plain" /\ local' = local
                  /\ UNCHANGED <<cur, results, epic_key, story_key>>
    /\ UNCHANGED <<input, disconnected, schema, story_issue_type, attempted, polls, raised>>

\* one pass of `for field_id in epic_name_field_candidates`
EpicTry ==
    /\ pc = "epic_try"
    /\ LET field_id == local.candidates[local.i] IN
       \E resp \in EpicResponses :
          /\ Answered(EpicRequest(field_id), resp)
          /\ IF resp.ok
             THEN /\ epic_name_field' = field_id
                  /\ Returned(NewIssue)
                  /\ local' = NoLocal
             ELSE /\ epic_name_field' = epic_name_field
                  /\ IF EpicErrorContinues(resp.msg) /\ local.i < Len(local.candidates)
                     THEN pc' = "epic_try" /\ local' = [local EXCEPT !.i = @ + 1]
                     ELSE pc' = "epic_plain" /\ local' = local
                  /\ UNCHANGED <<cur, results, epic_key, story_key>>
    /\ UNCHANGED <<input, disconnected, schema, story_issue_type, attempted, polls, raised>>

\* the fallback: issue_create(fields=base_issue)
EpicPlain ==
    /\ pc = "epic_plain"
    /\ \E resp \in PlainResponses :
          /\ Send(EpicRequest(None), resp.ok)
          /\ IF resp.ok
             THEN /\ pc' = "epic_update"
                  /\ local' = [local EXCEPT !.key = nextKey, !.i = 1]
                  /\ UNCHANGED <<cur, results, epic_key, story_key>>
             ELSE /\ Returned(NoIssue)
                  /\ local' = NoLocal
    /\ UNCHANGED <<input, disconnected, service, attempted, polls, raised>>

\* the epic created by the fallback request
PlainIssue == [key |-> local.key, self |-> local.key, summary |-> cur]

\* variant: an epic none of whose updates worked is given up
NextUpdateGivesUp ==
    IF local.i < Len(local.candidates)
    THEN /\ pc' = "epic_update"
         /\ local' = [local EXCEPT !.i = @ + 1]
         /\ UNCHANGED <<cur, results, epic_key, story_key>>
    ELSE /\ Returned(NoIssue)
         /\ local' = NoLocal

\* the update loop moves to its next candidate, or create_epic returns
NextUpdate ==
    IF local.i < Len(local.candidates)
    THEN /\ pc' = "epic_update"
         /\ local' = [local EXCEPT !.i = @ + 1]
         /\ UNCHANGED <<cur, results, epic_key, story_key>>
    ELSE /\ Returned(PlainIssue)
         /\ local' = NoLocal

\* self.jira.update_issue(epic_key, fields=update_fields)
EpicUpdate ==
    /\ pc = "epic_update"
    /\ \E resp \in UpdateResponses :
          \/ /\ resp = "ok"
             /\ SendUpdate(TRUE)
             /\ epic_name_field' = local.candidates[local.i]
             /\ Returned(PlainIssue)
             /\ local' = NoLocal
          \/ /\ resp = "attribute error"
             /\ pc' = "epic_update_field"
             /\ UNCHANGED <<epic_name_field, cur, results, epic_key, story_key, local, nextKey,
                            calls, updates, contacted, rejected, last_accepted, last_error>>
          \/ /\ resp = "error"
             /\ SendUpdate(FALSE)
             /\ epic_name_field' = epic_name_field
             /\ NextUpdate
    /\ UNCHANGED <<input, disconnected, schema, story_issue_type, attempted, polls, raised>>

\* self.jira.update_issue_field(epic_key, {field_id: ...})
EpicUpdateField ==
    /\ pc = "epic_update_field"
    /\ \E resp \in UpdateResponses :
          \/ /\ resp = "ok"
             /\ SendUpdate(TRUE)
             /\ epic_name_field' = local.candidates[local.i]
             /\ Returned(PlainIssue)
             /\ local' = NoLocal
          \/ /\ resp = "attribute error"
             /\ NextUpdate
             /\ UNCHANGED <<epic_name_field, nextKey, calls, updates, contacted, rejected, last_accepted, last_error>>
          \/ /\ resp = "error"
             /\ SendUpdate(FALSE)
             /\ epic_name_field' = epic_name_field
             /\ NextUpdate
    /\ UNCHANGED <<input, disconnected, schema, story_issue_type, attempted, polls, raised>>

\* ----------------------------------------------------------- create_story
\* variant: no story request carries the link
StoryRequestUnlinked(type_name, include_priority, parent_epic) ==
    [BaseRequest EXCEPT !.issuetype = type_name,
                        !.priority = (include_priority /\ Item(cur).priority)]

\* the fields of a story request: priority if the story has one and it is
\* asked for, the epic link if a parent key and a link field are both there
StoryRequest(type_name, include_priority, parent_epic) ==
    LET linked == parent_epic # 0 /\ epic_link_field # None
    IN  [BaseRequest EXCEPT !.issuetype = type_name,
                            !.priority = (include_priority /\ Item(cur).priority),
                            !.link_field = IF linked THEN epic_link_field ELSE None,
                            !.link = IF linked THEN parent_epic ELSE 0]

\* variant: every other available type is retried, epic and subtask types included
IsAlternateAny(i) == available_issue_types[i] # story_issue_type

\* the test of the alternate-type loop on available_issue_types[i]
IsAlternate(i) ==
    /\ ~HasEpicToken(available_issue_types[i])
    /\ ~HasSubtaskToken(available_issue_types[i])
    /\ available_issue_types[i] # story_issue_type

\* variant: every remaining entry of the available list is retried
NextAlternateAll(i) == IF i < Len(available_issue_types) THEN i + 1 ELSE 0

\* the next pass of `for issue_type in self.available_issue_types` that sends a request (0: none)
NextAlternate(i) ==
    IF \E j \in (i + 1)..Len(available_issue_types) : IsAlternate(j)
    THEN CHOOSE j \in (i + 1)..Len(available_issue_types) :
            IsAlternate(j) /\ \A k \in (i + 1)..(j - 1) : ~IsAlternate(k)
    ELSE 0

\* variant: the only fallback is the request with neither priority nor link
FirstFallbackLastOnly(l) == "story_last"

\* fallback_attempts: 'without priority' with the link only after a priority error,
\* then always the request with neither priority nor link
FirstFallback(l) == IF l.priorityError THEN "story_noprio" ELSE "story_last"

\* after a rejected request of the first attempt or of the alternate-type loop
AfterRejection(l) ==
    IF l.typeError /\ NextAlternate(l.i) # 0
    THEN pc' = "story_alt" /\ local' = [l EXCEPT !.i = NextAlternate(l.i)]
    ELSE pc' = FirstFallback(l) /\ local' = l

\* create_story from its call to its first tracker call
EnterStory ==
    IF ~configured
    THEN Returned(NoIssue) /\ local' = NoLocal
    ELSE IF ~Item(cur).hasSummary
    THEN Returned(NoIssue) /\ local' = NoLocal    \* KeyError caught at every level of the ladder
    ELSE /\ pc' = "story_first"
         /\ local' = NoLocal
         /\ UNCHANGED <<cur, results, epic_key, story_key>>

\* the first issue_create of create_story
StoryFirst ==
    /\ pc = "story_first"
    /\ \E resp \in StoryResponses :
          /\ Answered(StoryRequest(story_issue_type, TRUE, epic_key), resp)
          /\ IF resp.ok
             THEN Returned(NewIssue) /\ local' = NoLocal
             ELSE /\ AfterRejection([local EXCEPT !.typeError = "issue type" \in resp.msg,
                                                  !.priorityError = "priority" \in resp.msg])
                  /\ UNCHANGED <<cur, results, epic_key, story_key>>
    /\ UNCHANGED <<input, disconnected, service, attempted, polls, raised>>

\* variant: the alternate type is remembered before the tracker has answered
StoryAltHasty ==
    /\ pc = "story_alt"
    /\ \E resp \in PlainResponses :
          /\ Send(StoryRequest(available_issue_types[local.i], TRUE, epic_key), resp.ok)
          /\ story_issue_type' = available_issue_types[local.i]
          /\ IF resp.ok
             THEN /\ Returned(NewIssue)
                  /\ local' = NoLocal
             ELSE /\ AfterRejection(local)
                  /\ UNCHANGED <<cur, results, epic_key, story_key>>
    /\ UNCHANGED <<input, disconnected, schema, epic_name_field, attempted, polls, raised>>

\* one request of the alternate-type loop
StoryAlt ==
    /\ pc = "story_alt"
    /\ \E resp \in PlainResponses :
          /\ Send(StoryRequest(available_issue_types[local.i], TRUE, epic_key), resp.ok)
          /\ IF resp.ok
             THEN /\ story_issue_type' = available_issue_types[local.i]
                  /\ Returned(NewIssue)
                  /\ local' = NoLocal
             ELSE /\ story_issue_type' = story_issue_type
                  /\ AfterRejection(local)
                  /\ UNCHANGED <<cur, results, epic_key, story_key>>
    /\ UNCHANGED <<input, disconnected, schema, epic_name_field, attempted, polls, raised>>

\* _create_story_fallback(story_data, epic_key, include_priority=False)
StoryNoPriority ==
    /\ pc = "story_noprio"
    /\ \E resp \in PlainResponses :
          /\ Send(StoryRequest(story_issue_type, FALSE, epic_key), resp.ok)
          /\ IF resp.ok
             THEN Returned(NewIssue) /\ local' = NoLocal
             ELSE /\ pc' = "story_last"
                  /\ UNCHANGED <<cur, results, epic_key, story_key, local>>
    /\ UNCHANGED <<input, disconnected, service, attempted, polls, raised>>

\* variant: the connection is looked at again before the last fallback attempt
StoryLastPolled ==
    /\ pc = "story_last"
    /\ IF request_obj /\ disconnected
       THEN /\ results' = [results EXCEPT !.errors = Append(@, CancelledError)]
            /\ pc' = "done"
            /\ UNCHANGED <<cur, epic_key, story_key, local, nextKey, calls, updates, contacted, rejected, last_accepted, last_error>>
       ELSE \E resp \in PlainResponses :
               /\ Send(StoryRequest(story_issue_type, FALSE, 0), resp.ok)
               /\ Returned(IF resp.ok THEN NewIssue ELSE NoIssue)
               /\ local' = NoLocal
    /\ UNCHANGED <<input, disconnected, service, attempted, polls, raised>>

\* _create_story_fallback(story_data, None, include_priority=False)
StoryLast ==
    /\ pc = "story_last"
    /\ \E resp \in PlainResponses :
          /\ Send(StoryRequest(story_issue_type, FALSE, 0), resp.ok)
          /\ Returned(IF resp.ok THEN NewIssue ELSE NoIssue)
          /\ local' = NoLocal
    /\ UNCHANGED <<input, disconnected, service, attempted, polls, raised>>

\* --------------------------------------------------------- create_subtask
\* variant: the request leaves without the parent link
SubtaskRequestOrphan(parent_key) == [BaseRequest EXCEPT !.issuetype = subtask_issue_type]

SubtaskRequest(parent_key) == [BaseRequest EXCEPT !.issuetype = subtask_issue_type, !.parent = parent_key]

\* create_subtask from its call to its tracker call
EnterSubtask ==
    IF ~configured \/ ~Item(cur).hasSummary
    THEN Returned(NoIssue) /\ local' = NoLocal    \* not configured, or KeyError caught: None
    ELSE /\ pc' = "subtask_create"
         /\ local' = NoLocal
         /\ UNCHANGED <<cur, results, epic_key, story_key>>

SubtaskCreate ==
    /\ pc = "subtask_create"
    /\ \E resp \in PlainResponses :
          /\ Send(SubtaskRequest(story_key), resp.ok)
          /\ Returned(IF resp.ok THEN NewIssue ELSE NoIssue)
          /\ local' = NoLocal
    /\ UNCHANGED <<input, disconnected, service, attempted, polls, raised>>

\* ------------------------------------------------ the cancellation checks
\* variant: the checks of the inner loops log the cancellation and go on
CancelWithoutReturn ==
    /\ results' = [results EXCEPT !.errors = Append(@, CancelledError)]
    /\ pc' = IF Level(cur) = "epic" THEN "done"
             ELSE IF Level(cur) = "story" THEN "story_first" ELSE "subtask_create"
    /\ UNCHANGED <<cur, epic_key, story_key, local, calls, updates, attempted, raised>>

\* variant: a cancelled request answers with a fresh result
CancelRollsBack ==
    /\ results' = [epics |-> <<>>, stories |-> <<>>, subtasks |-> <<>>, errors |-> <<CancelledError>>]
    /\ pc' = "done"
    /\ UNCHANGED <<cur, epic_key, story_key, local, calls, updates, attempted, raised>>

\* a positive check: one error string, return results
Cancel ==
    /\ results' = [results EXCEPT !.errors = Append(@, CancelledError)]
    /\ pc' = "done"
    /\ UNCHANGED <<cur, epic_key, story_key, local, calls, updates, attempted, raised>>

\* the head of a loop body at level `level`: the poll, then the call of create_*
Check(level) ==
    /\ pc = "check"
    /\ Level(cur) = level
    /\ polls' = IF request_obj THEN Append(polls, cur) ELSE polls
    /\ IF IsCancelled
       THEN Cancel
       ELSE /\ attempted' = Append(attempted, cur)
            /\ calls' = <<>>
            /\ updates' = 0
            /\ IF level = "epic" THEN EnterEpic
               ELSE IF level = "story" THEN EnterStory /\ raised' = raised
               ELSE EnterSubtask /\ raised' = raised
    /\ UNCHANGED <<input, disconnected, service, nextKey, contacted, rejected, last_accepted, last_error>>

CheckEpic == Check("epic")

CheckStory == Check("story")

CheckSubtask == Check("subtask")

\* ---------------------------------------------------------- specification
Next ==
    \/ Begin
    \/ Disconnect
    \/ CheckEpic
    \/ EpicTry
    \/ EpicPlain
    \/ EpicUpdate
    \/ EpicUpdateField
    \/ CheckStory
    \/ StoryFirst
    \/ StoryAlt
    \/ StoryNoPriority
    \/ StoryLast
    \/ CheckSubtask
    \/ SubtaskCreate

Spec == Init /\ [][Next]_vars

\* ------------------------------------------------ the response of the model
\* response.text as a sequence of tokens:
\*   "{" "}" "[" "]"  the brace and bracket characters
\*   "n"              a JSON scalar other than null
\*   "z"              null
\*   "k" / "e"        a member name with its colon: "k" any name, "e" the name "epics"
\*   "w"              a word of prose
\*   "f"              a code-fence marker, ``` or ```json
MaxDepth == 3
MaxPre == 1
MaxPost == 2

\* the JSON values of nesting depth <= d, as the tokens that write them
RECURSIVE Values(_)
Values(d) ==
    IF d = 0 THEN {<<"n">>, <<"z">>, <<"{", "}">>, <<"[", "]">>}
    ELSE Values(0)
         \cup {<<"{", key>> \o v \o <<"}">> : key \in {"k", "e"}, v \in Values(d - 1)}
         \cup {<<"[">> \o v \o <<"]">> : v \in Values(d - 1)}

\* a response cut off before its last token
Truncated(v) == SubSeq(v, 1, Len(v) - 1)

Payloads == Values(MaxDepth) \cup {Truncated(v) : v \in Values(MaxDepth)}

\* the prose around the payload: words and stray braces
Prose(n) == UNION {[1..m -> {"w", "{", "}"}] : m \in 0..n}

Fenced(v, fenced) == IF fenced THEN <<"f">> \o v \o <<"f">> ELSE v

\* ---- json.loads
\* Python's None: what json.loads makes of null, and what extract_json
\* returns when it has nothing
NoValue == [type |-> "none", keys |-> <<>>, kids |-> <<>>]

Bad == [ok |-> FALSE, next |-> 0, value |-> NoValue]

Good(next, type, keys, kids) ==
    [ok |-> TRUE, next |-> next, value |-> [type |-> type, keys |-> keys, kids |-> kids]]

At(s, i) == IF i \in 1..Len(s) THEN s[i] ELSE "eof"

\* the value that starts at s[i], and where it ends
RECURSIVE ParseValue(_, _)
ParseValue(s, i) ==
    CASE At(s, i) = "n" -> Good(i + 1, "number", <<>>, <<>>)
      [] At(s, i) = "z" -> [ok |-> TRUE, next |-> i + 1, value |-> NoValue]
      [] At(s, i) = "[" ->
            IF At(s, i + 1) = "]" THEN Good(i + 2, "array", <<>>, <<>>)
            ELSE LET r == ParseValue(s, i + 1)
                 IN  IF r.ok /\ At(s, r.next) = "]"
                     THEN Good(r.next + 1, "array", <<>>, <<r.value>>)
                     ELSE Bad
      [] At(s, i) = "{" ->
            IF At(s, i + 1) = "}" THEN Good(i + 2, "object", <<>>, <<>>)
            ELSE IF At(s, i + 1) \in {"k", "e"}
            THEN LET r == ParseValue(s, i + 2)
                 IN  IF r.ok /\ At(s, r.next) = "}"
                     THEN Good(r.next + 1, "object", <<At(s, i + 1)>>, <<r.value>>)
                     ELSE Bad
            ELSE Bad
      [] OTHER -> Bad

\* json.loads(s) returns: s is exactly one JSON value (no JSONDecodeError)
decodes(s) == LET r == ParseValue(s, 1) IN r.ok /\ r.next = Len(s) + 1

\* json.loads(s): the value when s is exactly one JSON value, NoValue on JSONDecodeError
loads(s) ==
    LET r == ParseValue(s, 1)
    IN  IF r.ok /\ r.next = Len(s) + 1 THEN r.value ELSE NoValue

\* ---- extract_json
\* text_input.replace("```json", "").replace("```", "").strip()
cleaned(text_input) == SelectSeq(text_input, LAMBDA t : t # "f")

\* str.find / str.rfind of one character (0: not found)
find(s, c) ==
    IF \E i \in 1..Len(s) : s[i] = c
    THEN CHOOSE i \in 1..Len(s) : s[i] = c /\ \A j \in 1..(i - 1) : s[j] # c
    ELSE 0

rfind(s, c) ==
    IF \E i \in 1..Len(s) : s[i] = c
    THEN CHOOSE i \in 1..Len(s) : s[i] = c /\ \A j \in (i + 1)..Len(s) : s[j] # c
    ELSE 0

\* json_pattern = \{[^{}]*(?:\{[^{}]*\}[^{}]*)*\} : inside an inner pair of
\* braces no brace is allowed; the index of the closing brace (0: no match)
RECURSIVE ScanInner(_, _)
ScanInner(s, i) ==
    CASE At(s, i) = "}" -> i
      [] At(s, i) \in {"{", "eof"} -> 0
      [] OTHER -> ScanInner(s, i + 1)

RECURSIVE ScanOuter(_, _)
ScanOuter(s, i) ==
    CASE At(s, i) = "}" -> i
      [] At(s, i) = "eof" -> 0
      [] At(s, i) = "{" ->
            LET j == ScanInner(s, i + 1) IN IF j = 0 THEN 0 ELSE ScanOuter(s, j + 1)
      [] OTHER -> ScanOuter(s, i + 1)

\* where the match of json_pattern that starts at s[p] ends (0: none starts there)
MatchEnd(s, p) == IF At(s, p) = "{" THEN ScanOuter(s, p + 1) ELSE 0

\* re.findall(json_pattern, s, re.DOTALL) from position p on: the
\* non-overlapping matches, leftmost first
RECURSIVE findall(_, _)
findall(s, p) ==
    IF p > Len(s) THEN <<>>
    ELSE IF MatchEnd(s, p) # 0
    THEN <<SubSeq(s, p, MatchEnd(s, p))>> \o findall(s, MatchEnd(s, p) + 1)
    ELSE findall(s, p + 1)

\* for match in reversed(matches): the first one json.loads accepts
RECURSIVE LastParseable(_)
LastParseable(matches) ==
    IF matches = <<>> THEN NoValue
    ELSE IF loads(matches[Len(matches)]) # NoValue THEN loads(matches[Len(matches)])
    ELSE LastParseable(SubSeq(matches, 1, Len(matches) - 1))

Strategy1(text_input) == loads(cleaned(text_input))

Strategy2(text_input) ==
    LET start_idx == find(text_input, "{")
        end_idx == rfind(text_input, "}")
    IN  IF start_idx # 0 /\ end_idx # 0 /\ end_idx > start_idx
        THEN loads(SubSeq(text_input, start_idx, end_idx))
        ELSE NoValue

Strategy3(text_input) == LastParseable(findall(text_input, 1))

\* variant: the candidates are tried before the substring between the braces
extract_json_candidates_first(text_input) ==
    IF decodes(cleaned(text_input)) THEN Strategy1(text_input)
    ELSE IF Strategy3(text_input) # NoValue THEN Strategy3(text_input)
    ELSE Strategy2(text_input)

\* NoValue stands for the None of the last line; strategies 2 and 3 parse a
\* text that starts with a brace, which is an object or nothing
extract_json(text_input) ==
    IF decodes(cleaned(text_input)) THEN Strategy1(text_input)
    ELSE IF Strategy2(text_input) # NoValue THEN Strategy2(text_input)
    ELSE Strategy3(text_input)

\* ---- run_ai_analysis, from the response on
\* the variables of the tracker walk while no create_issues request exists
NoRequest ==
    /\ doc = <<>>
    /\ request_obj = FALSE
    /\ disconnected = FALSE
    /\ configured = FALSE
    /\ epic_name_field = None
    /\ epic_link_field = None
    /\ available_issue_types = <<>>
    /\ story_issue_type = None
    /\ subtask_issue_type = None
    /\ cur = End
    /\ results = [epics |-> <<>>, stories |-> <<>>, subtasks |-> <<>>, errors |-> <<>>]
    /\ epic_key = 0
    /\ story_key = 0
    /\ local = NoLocal
    /\ nextKey = 1
    /\ calls = <<>>
    /\ updates = 0
    /\ contacted = {}
    /\ attempted = <<>>
    /\ polls = <<>>
    /\ rejected = FALSE
    /\ last_accepted = FALSE
    /\ last_error = {}
    /\ raised = None
    /\ credentials = FALSE
    /\ probes = <<>>
    /\ response = NoResponse
    /\ Alone

request == <<doc, request_obj, disconnected, service, cur, results, epic_key, story_key,
             local, nextKey, history, construction, sharing>>

InitExtract ==
    /\ NoRequest
    /\ pc = "ai_response"
    /\ payload \in Payloads
    /\ \E pre \in Prose(MaxPre), post \in Prose(MaxPost), fenced \in BOOLEAN :
          text = pre \o Fenced(payload, fenced) \o post
    /\ structured_data = None
    /\ analysis = NotAnalysed

\* structured_data = extract_json(text)
Extract ==
    /\ pc = "ai_response"
    /\ structured_data' = extract_json(text)
    /\ pc' = "ai_extracted"
    /\ UNCHANGED <<request, text, payload, analysis>>

\* return structured_data
ReturnData ==
    /\ pc = "ai_extracted"
    /\ structured_data # NoValue
    /\ analysis' = [kind |-> "return", status_code |-> 200, detail |-> <<>>]
    /\ pc' = "ai_done"
    /\ UNCHANGED <<request, text, payload, structured_data>>

\* raise HTTPException(500, "AI response was not valid JSON"), which the
\* `except Exception` of run_ai_analysis catches and wraps; str(e) of an
\* HTTPException holds its detail or is empty, depending on the framework
RaiseInvalid ==
    /\ pc = "ai_extracted"
    /\ structured_data = NoValue
    /\ \E inner \in {<<>>, <<"AI response was not valid JSON">>} :
          analysis' = [kind |-> "HTTPException", status_code |-> 500,
                       detail |-> <<"AI analysis failed">> \o inner]
    /\ pc' = "ai_done"
    /\ UNCHANGED <<request, text, payload, structured_data>>

NextExtract ==
    \/ Extract
    \/ ReturnData
    \/ RaiseInvalid

SpecExtract == InitExtract /\ [][NextExtract]_vars

\* ------------------------------------------- the construction of the service
\* how many issue types the project of the tracker has at most
MaxTypes == 3

\* the issue-type names the tracker can list
TypeNames == {"Epic", "story", "Task", "Feature", "Improvement", "Incident", "Sub-task"}

TypeLists == UNION {[1..n -> TypeNames] : n \in 0..MaxTypes}

\* what a probe answers: it raises, or the search loop over its answer ends
\* with the identifier of a field (None: without a hit)
Raises(nothing) == [raise |-> TRUE, found |-> nothing]

NameAnswers == {Raises(None)} \cup [raise : {FALSE}, found : {None, "customfield_10011", "customfield_10020"}]

LinkAnswers == {Raises(None)} \cup [raise : {FALSE}, found : {None, "customfield_10008"}]

TypeAnswers == {Raises(<<>>)} \cup [raise : {FALSE}, found : TypeLists]

\* the except clause of a field probe: a probe that raised has found nothing
Found(answer) == IF answer.raise THEN None ELSE answer.found

\* the except clause of the listing of the types
Listed(answer) == IF answer.raise THEN <<>> ELSE answer.found

Probe(name, answer) == probes' = Append(probes, [probe |-> name, answer |-> answer])

\* the attributes of a service without a tracker
Disabled ==
    /\ configured' = FALSE
    /\ epic_name_field' = None
    /\ epic_link_field' = None
    /\ available_issue_types' = <<>>
    /\ story_issue_type' = None
    /\ subtask_issue_type' = None

request_state == <<doc, request_obj, disconnected, cur, results, epic_key, story_key,
                   local, nextKey, history, extraction, sharing>>

InitConstruct ==
    /\ credentials \in BOOLEAN
    /\ pc = "new"
    /\ doc = <<>>
    /\ request_obj = FALSE
    /\ disconnected = FALSE
    /\ configured = FALSE
    /\ epic_name_field = None
    /\ epic_link_field = None
    /\ available_issue_types = <<>>
    /\ story_issue_type = None
    /\ subtask_issue_type = None
    /\ cur = End
    /\ results = [epics |-> <<>>, stories |-> <<>>, subtasks |-> <<>>, errors |-> <<>>]
    /\ epic_key = 0
    /\ story_key = 0
    /\ local = NoLocal
    /\ nextKey = 1
    /\ calls = <<>>
    /\ updates = 0
    /\ contacted = {}
    /\ attempted = <<>>
    /\ polls = <<>>
    /\ rejected = FALSE
    /\ last_accepted = FALSE
    /\ last_error = {}
    /\ raised = None
    /\ NoAnalysis
    /\ probes = <<>>
    /\ response = NoResponse
    /\ endpoint = "create-from-file"
    /\ me = 1
    /\ other = IdleFrame(<<>>)
    /\ owner = {}
    /\ since = 1

\* __init__ that goes on to the tracker whatever the settings hold
ConstructUnchecked ==
    /\ pc = "new"
    /\ configured' = TRUE
    /\ pc' = "name_fields"
    /\ UNCHANGED <<epic_name_field, epic_link_field, available_issue_types,
                   story_issue_type, subtask_issue_type>>
    /\ UNCHANGED <<request_state, construction>>

\* __init__ up to the first probe: the settings, then the client
Construct ==
    /\ pc = "new"
    /\ \E client \in BOOLEAN :
          IF credentials /\ client
          THEN /\ configured' = TRUE
               /\ pc' = "name_fields"
               /\ UNCHANGED <<epic_name_field, epic_link_field, available_issue_types,
                              story_issue_type, subtask_issue_type>>
          ELSE /\ Disabled
               /\ pc' = "constructed"
    /\ UNCHANGED <<request_state, construction>>

\* method 1 without its except clause: the exception reaches __init__
ProbeNameFieldsUncaught ==
    /\ pc = "name_fields"
    /\ \E answer \in NameAnswers :
          /\ Probe("name: get_all_fields", answer)
          /\ IF answer.raise
             THEN Disabled /\ pc' = "constructed"
             ELSE /\ IF answer.found # None
                     THEN epic_name_field' = answer.found /\ pc' = "link_fields"
                     ELSE epic_name_field' = epic_name_field /\ pc' = "name_meta"
                  /\ UNCHANGED <<configured, epic_link_field, available_issue_types,
                                 story_issue_type, subtask_issue_type>>
    /\ UNCHANGED <<request_state, credentials, response, endpoint>>

\* _get_epic_name_field, method 1
ProbeNameFields ==
    /\ pc = "name_fields"
    /\ \E answer \in NameAnswers :
          /\ Probe("name: get_all_fields", answer)
          /\ IF Found(answer) # None
             THEN epic_name_field' = Found(answer) /\ pc' = "link_fields"
             ELSE epic_name_field' = epic_name_field /\ pc' = "name_meta"
    /\ UNCHANGED <<configured, epic_link_field, available_issue_types, story_issue_type,
                   subtask_issue_type, request_state, credentials, response, endpoint>>

\* _get_epic_name_field, method 2
ProbeNameMeta ==
    /\ pc = "name_meta"
    /\ \E answer \in NameAnswers :
          /\ Probe("name: issue_createmeta", answer)
          /\ epic_name_field' = Found(answer)
    /\ pc' = "link_fields"
    /\ UNCHANGED <<configured, epic_link_field, available_issue_types, story_issue_type,
                   subtask_issue_type, request_state, credentials, response, endpoint>>

\* _get_epic_link_field, the search of all fields
ProbeLinkFields ==
    /\ pc = "link_fields"
    /\ \E answer \in LinkAnswers :
          /\ Probe("link: get_all_fields", answer)
          /\ IF Found(answer) # None
             THEN epic_link_field' = Found(answer) /\ pc' = "types"
             ELSE epic_link_field' = epic_link_field /\ pc' = "link_meta"
    /\ UNCHANGED <<configured, epic_name_field, available_issue_types, story_issue_type,
                   subtask_issue_type, request_state, credentials, response, endpoint>>

\* _get_epic_link_field, the create metadata of the project
ProbeLinkMeta ==
    /\ pc = "link_meta"
    /\ \E answer \in LinkAnswers :
          /\ Probe("link: issue_createmeta", answer)
          /\ epic_link_field' = IF Found(answer) # None THEN Found(answer) ELSE DefaultEpicLinkField
    /\ pc' = "types"
    /\ UNCHANGED <<configured, epic_name_field, available_issue_types, story_issue_type,
                   subtask_issue_type, request_state, credentials, response, endpoint>>

\* _get_available_issue_types, then the two detections
ProbeTypes ==
    /\ pc = "types"
    /\ \E answer \in TypeAnswers :
          LET types == Listed(answer)
          IN  /\ Probe("types: issue_createmeta", answer)
              /\ available_issue_types' = types
              /\ story_issue_type' = _detect_story_issue_type(types)
              /\ subtask_issue_type' = _detect_subtask_issue_type(types)
    /\ pc' = "constructed"
    /\ UNCHANGED <<configured, epic_name_field, epic_link_field, request_state,
                   credentials, response, endpoint>>

NoIssues == [epics |-> <<>>, stories |-> <<>>, subtasks |-> <<>>]

\* JiraCreateResponse(success=False, message=..., created_issues={}, errors=[reason])
Refused(reason) ==
    [success |-> FALSE, created_issues |-> NoIssues, errors |-> <<[kind |-> reason, summary |-> End]>>]

NotConfiguredResponse == Refused("JIRA credentials not configured in backend")

NoRequirements == [status_code |-> 400]

\* create_jira_tickets_from_file up to the files: the configuration check
FromFile ==
    /\ pc = "constructed"
    /\ endpoint = "create-from-file"
    /\ IF ~configured
       THEN response' = NotConfiguredResponse /\ pc' = "answered"
       ELSE response' = response /\ pc' = "files"
    /\ UNCHANGED <<service, request_state, credentials, probes, endpoint>>

\* create_jira_tickets_from_file reads the upload
ReadFiles ==
    /\ pc = "files"
    /\ \E empty \in BOOLEAN :
          IF empty
          THEN response' = NoRequirements /\ pc' = "answered"
          ELSE response' = response /\ pc' = "before_analysis"
    /\ UNCHANGED <<service, request_state, credentials, probes, endpoint>>

\* create_issues is called on a service without a tracker
Submit ==
    /\ pc \in {"constructed", "answered"}
    /\ ~configured
    /\ doc' \in Docs
    /\ request_obj' \in BOOLEAN
    /\ pc' = "idle"
    /\ UNCHANGED <<disconnected, service, cur, results, epic_key, story_key, local,
                   nextKey, history, elsewhere>>

NextConstruct ==
    \/ Construct
    \/ ProbeNameFields
    \/ ProbeNameMeta
    \/ ProbeLinkFields
    \/ ProbeLinkMeta
    \/ ProbeTypes
    \/ FromFile
    \/ ReadFiles
    \/ Submit
    \/ Begin
    \/ Disconnect
    \/ CheckEpic

SpecConstruct == InitConstruct /\ [][NextConstruct]_vars

\* ------------------------------------- two requests on the shared service
\* jira_router.py builds one JiraService at import; every request of the
\* create-from-file endpoint awaits create_issues on it. The tracker client is
\* synchronous, so the event loop can pass from one request to the other only
\* where a request awaits request_obj.is_disconnected(), before it has begun,
\* or after it has returned.

\* the data of the first request: an epic with a story that has a priority and
\* a subtask
FirstDoc == MkDoc(<<<<1>>>>, {}, {<<1, 1, 0>>})

\* the data of the second request: an epic with a story
SecondDoc == MkDoc(<<<<0>>>>, {}, {})

\* the locals of the request that is running
Frame ==
    [doc |-> doc, request_obj |-> request_obj, disconnected |-> disconnected, pc |-> pc, cur |-> cur,
     results |-> results, epic_key |-> epic_key, story_key |-> story_key, local |-> local,
     calls |-> calls, updates |-> updates, contacted |-> contacted, attempted |-> attempted,
     polls |-> polls, rejected |-> rejected, last_accepted |-> last_accepted, last_error |-> last_error, raised |-> raised]

\* variant: epic_key and story_key are kept on the service, not in the request
ResumeSharedKeys(frame) ==
    /\ doc' = frame.doc
    /\ request_obj' = frame.request_obj
    /\ disconnected' = frame.disconnected
    /\ pc' = frame.pc
    /\ cur' = frame.cur
    /\ results' = frame.results
    /\ epic_key' = epic_key
    /\ story_key' = story_key
    /\ local' = frame.local
    /\ calls' = frame.calls
    /\ updates' = frame.updates
    /\ contacted' = frame.contacted
    /\ attempted' = frame.attempted
    /\ polls' = frame.polls
    /\ rejected' = frame.rejected
    /\ last_accepted' = frame.last_accepted
    /\ last_error' = frame.last_error
    /\ raised' = frame.raised

\* the event loop resumes a request: its locals are as it left them
Resume(frame) ==
    /\ doc' = frame.doc
    /\ request_obj' = frame.request_obj
    /\ disconnected' = frame.disconnected
    /\ pc' = frame.pc
    /\ cur' = frame.cur
    /\ results' = frame.results
    /\ epic_key' = frame.epic_key
    /\ story_key' = frame.story_key
    /\ local' = frame.local
    /\ calls' = frame.calls
    /\ updates' = frame.updates
    /\ contacted' = frame.contacted
    /\ attempted' = frame.attempted
    /\ polls' = frame.polls
    /\ rejected' = frame.rejected
    /\ last_accepted' = frame.last_accepted
    /\ last_error' = frame.last_error
    /\ raised' = frame.raised

\* variant: the tracker calls are awaited, so the event loop can take the
\* processor before each of them
SuspendableAtCalls == pc \in {"idle", "done"} \/ (pc = "check" /\ request_obj) \/ pc \notin {"idle", "check", "done"}

\* the running request is where the event loop can take the processor from it
Suspendable == pc \in {"idle", "done"} \/ (pc = "check" /\ request_obj)

\* the event loop passes from the running request to the other one
Switch ==
    /\ Suspendable
    /\ Resume(other)
    /\ other' = Frame
    /\ me' = 3 - me
    /\ owner' = owner \cup {<<k, me>> : k \in since..(nextKey - 1)}
    /\ since' = nextKey
    /\ UNCHANGED <<service, nextKey, extraction, construction>>

InitShared ==
    /\ doc = FirstDoc
    /\ request_obj = TRUE
    /\ disconnected = FALSE
    /\ configured = TRUE
    /\ \E d \in Deployments :
          /\ d.epic_name_field = "customfield_10011"
          /\ epic_name_field = d.epic_name_field
          /\ epic_link_field = d.epic_link_field
          /\ available_issue_types = d.available_issue_types
          /\ story_issue_type = _detect_story_issue_type(d.available_issue_types)
          /\ subtask_issue_type = _detect_subtask_issue_type(d.available_issue_types)
    /\ pc = "idle"
    /\ cur = End
    /\ results = [epics |-> <<>>, stories |-> <<>>, subtasks |-> <<>>, errors |-> <<>>]
    /\ epic_key = 0
    /\ story_key = 0
    /\ local = NoLocal
    /\ nextKey = 1
    /\ calls = <<>>
    /\ updates = 0
    /\ contacted = {}
    /\ attempted = <<>>
    /\ polls = <<>>
    /\ rejected = FALSE
    /\ last_accepted = FALSE
    /\ last_error = {}
    /\ raised = None
    /\ NoAnalysis
    /\ credentials = TRUE
    /\ probes = <<>>
    /\ response = NoResponse
    /\ endpoint = "create-from-file"
    /\ me = 1
    /\ other = IdleFrame(SecondDoc)
    /\ owner = {}
    /\ since = 1

NextShared ==
    \/ Switch
    \/ Begin
    \/ Disconnect
    \/ CheckEpic
    \/ EpicTry
    \/ EpicPlain
    \/ EpicUpdate
    \/ EpicUpdateField
    \/ CheckStory
    \/ StoryFirst
    \/ StoryAlt
    \/ StoryNoPriority
    \/ StoryLast
    \/ CheckSubtask
    \/ SubtaskCreate

SpecShared == InitShared /\ [][NextShared]_vars

\* ------------------------------------------------------- the two endpoints
\* create_jira_tickets_from_file works on the service of the module, with the
\* data run_ai_analysis returned; create_jira_tickets builds a
\* DynamicJiraService from the credentials of the request (its create_issues
\* is a copy of JiraService.create_issues) and takes the data from the body.
\* Both pass their Request to create_issues.
InitEndpoint ==
    /\ endpoint \in {"create-from-file", "create-tickets"}
    /\ doc = <<>>
    /\ request_obj = TRUE
    /\ disconnected = FALSE
    /\ \/ /\ configured = TRUE
          /\ \E d \in Deployments :
                /\ epic_name_field = d.epic_name_field
                /\ epic_link_field = d.epic_link_field
                /\ available_issue_types = d.available_issue_types
                /\ story_issue_type = _detect_story_issue_type(d.available_issue_types)
                /\ subtask_issue_type = _detect_subtask_issue_type(d.available_issue_types)
       \/ /\ endpoint = "create-from-file"
          /\ configured = FALSE
          /\ epic_name_field = None
          /\ epic_link_field = None
          /\ available_issue_types = <<>>
          /\ story_issue_type = None
          /\ subtask_issue_type = None
    /\ pc = "constructed"
    /\ cur = End
    /\ results = [epics |-> <<>>, stories |-> <<>>, subtasks |-> <<>>, errors |-> <<>>]
    /\ epic_key = 0
    /\ story_key = 0
    /\ local = NoLocal
    /\ nextKey = 1
    /\ calls = <<>>
    /\ updates = 0
    /\ contacted = {}
    /\ attempted = <<>>
    /\ polls = <<>>
    /\ rejected = FALSE
    /\ last_accepted = FALSE
    /\ last_error = {}
    /\ raised = None
    /\ NoAnalysis
    /\ credentials = configured
    /\ probes = <<>>
    /\ response = NoResponse
    /\ me = 1
    /\ other = IdleFrame(<<>>)
    /\ owner = {}
    /\ since = 1

\* an HTTPException that leaves the endpoint: `except HTTPException: raise`
HttpError(code) == [status_code |-> code]

walk_state == <<disconnected, service, cur, results, epic_key, story_key, local, nextKey, history,
                credentials, probes, endpoint, sharing>>

\* create_jira_tickets up to create_issues: the DynamicJiraService is built
\* (a constructor that raises ends in the handler of the endpoint)
Tickets ==
    /\ pc = "constructed"
    /\ endpoint = "create-tickets"
    /\ \E built \in BOOLEAN :
          IF built
          THEN /\ doc' \in Docs
               /\ pc' = "idle"
               /\ response' = response
          ELSE /\ doc' = doc
               /\ pc' = "answered"
               /\ response' = Refused("Failed to create JIRA tickets")
    /\ UNCHANGED <<request_obj, walk_state, extraction>>

\* `if await request.is_disconnected()` before the analysis
CheckBeforeAnalysis ==
    /\ pc = "before_analysis"
    /\ IF disconnected
       THEN response' = Refused("Client disconnected before processing") /\ pc' = "answered"
       ELSE response' = response /\ pc' = "analysis"
    /\ UNCHANGED <<doc, request_obj, walk_state, extraction>>

\* structured_data = await run_ai_analysis(...): it raises its HTTPException,
\* or returns data whose 'epics' the endpoint can read, or something else
\* (structured_data.get raises, into `except Exception`)
Analyse ==
    /\ pc = "analysis"
    /\ \/ /\ analysis' = [kind |-> "HTTPException", status_code |-> 500, detail |-> <<"AI analysis failed">>]
          /\ response' = HttpError(500)
          /\ pc' = "answered"
          /\ doc' = doc
       \/ /\ analysis' = [kind |-> "return", status_code |-> 200, detail |-> <<>>]
          /\ \/ /\ doc' \in Docs
                /\ pc' = "after_analysis"
                /\ response' = response
             \/ /\ doc' = doc
                /\ pc' = "answered"
                /\ response' = Refused("Failed to create JIRA tickets from file")
    /\ UNCHANGED <<request_obj, walk_state, text, payload, structured_data>>

\* variant: the connection is not looked at after the analysis
CheckAfterAnalysisBlind ==
    /\ pc = "after_analysis"
    /\ response' = response
    /\ pc' = "idle"
    /\ UNCHANGED <<doc, request_obj, walk_state, extraction>>

\* `if await request.is_disconnected()` after the analysis
CheckAfterAnalysis ==
    /\ pc = "after_analysis"
    /\ IF disconnected
       THEN response' = Refused("Client disconnected after AI analysis") /\ pc' = "answered"
       ELSE response' = response /\ pc' = "idle"
    /\ UNCHANGED <<doc, request_obj, walk_state, extraction>>

\* variant: a response with errors carries no issues
RespondBare ==
    /\ pc = "done"
    /\ response' = [success |-> results.errors = <<>>,
                    created_issues |-> IF results.errors = <<>>
                                       THEN [epics |-> results.epics, stories |-> results.stories,
                                             subtasks |-> results.subtasks]
                                       ELSE NoIssues,
                    errors |-> results.errors]
    /\ pc' = "responded"
    /\ UNCHANGED <<doc, request_obj, walk_state, extraction>>

\* result = await ...create_issues(...), then the response: with
\* result['errors'], success=False and the lists; without, success=True
Respond ==
    /\ pc = "done"
    /\ response' = [success |-> results.errors = <<>>,
                    created_issues |-> [epics |-> results.epics, stories |-> results.stories,
                                        subtasks |-> results.subtasks],
                    errors |-> results.errors]
    /\ pc' = "responded"
    /\ UNCHANGED <<doc, request_obj, walk_state, extraction>>

NextEndpoint ==
    \/ FromFile
    \/ ReadFiles
    \/ CheckBeforeAnalysis
    \/ Analyse
    \/ CheckAfterAnalysis
    \/ Tickets
    \/ Respond
    \/ Begin
    \/ Disconnect
    \/ CheckEpic
    \/ EpicTry
    \/ EpicPlain
    \/ EpicUpdate
    \/ EpicUpdateField
    \/ CheckStory
    \/ StoryFirst
    \/ StoryAlt
    \/ StoryNoPriority
    \/ StoryLast
    \/ CheckSubtask
    \/ SubtaskCreate

SpecEndpoint == InitEndpoint /\ [][NextEndpoint]_vars

\* ------------------------------------------------------------ vocabulary
Range(seq) == {seq[i] : i \in 1..Len(seq)}

Summaries(list) == {list[i].summary : i \in 1..Len(list)}

Keys(list) == {list[i].key : i \in 1..Len(list)}

\* the items of the document
Epics == {<<e, 0, 0>> : e \in 1..Len(doc)}

Stories == UNION {{<<e, s, 0>> : s \in 1..Len(doc[e].stories)} : e \in 1..Len(doc)}

Subtasks ==
    UNION {UNION {{<<e, s, t>> : t \in 1..Len(doc[e].stories[s].subtasks)} :
                  s \in 1..Len(doc[e].stories)} : e \in 1..Len(doc)}

Items == Epics \cup Stories \cup Subtasks

Parent(p) == IF Level(p) = "subtask" THEN <<p[1], p[2], 0>> ELSE <<p[1], 0, 0>>

Descendants(p) ==
    IF Level(p) = "epic" THEN {q \in Stories \cup Subtasks : q[1] = p[1]}
    ELSE IF Level(p) = "story" THEN {q \in Subtasks : q[1] = p[1] /\ q[2] = p[2]}
    ELSE {}

\* the siblings that follow p in its loop
LaterSiblings(p) ==
    IF Level(p) = "epic" THEN {q \in Epics : q[1] > p[1]}
    ELSE IF Level(p) = "story" THEN {q \in Stories : q[1] = p[1] /\ q[2] > p[2]}
    ELSE {q \in Subtasks : q[1] = p[1] /\ q[2] = p[2] /\ q[3] > p[3]}

Attempted == Range(attempted)

Created == Summaries(results.epics) \cup Summaries(results.stories) \cup Summaries(results.subtasks)

\* a creation ladder is running for the item cur
Running == pc \notin {"idle", "check", "done"}

\* create_* was called for p and came back without an issue (None, or an exception)
Failed(p) == p \in Attempted /\ p \notin Created /\ ~(p = cur /\ Running)

\* a cancellation check of this request was positive
Cancelled == CancelledError \in Range(results.errors)

\* the handler of create_issues caught an exception
Aborted == ExceptionError \in Range(results.errors)

Count(seq, x) == Cardinality({i \in 1..Len(seq) : seq[i] = x})

\* ------------------------------------------------------------------ claims
\* C1: a story's creation is attempted (and any tracker call for it made) only
\* after its parent epic was created, a subtask's only after its parent story
\* was created: whenever create_* has been called for a child, the parent is
\* already in the result list of its level.
C1_ParentCreatedFirst ==
    \A p \in Attempted \cup contacted \cup (IF Running THEN {cur} ELSE {}) :
        /\ Level(p) = "story" => Parent(p) \in Summaries(results.epics)
        /\ Level(p) = "subtask" => Parent(p) \in Summaries(results.stories)

\* a subtask's request has left after a rejection elsewhere in the request
C1_Witness ==
    /\ \E p \in contacted : Level(p) = "subtask"
    /\ \E p \in contacted : Level(p) = "story"
    /\ rejected

\* C2: once the creation of an epic or story has failed, create_* is never
\* called and no tracker call is made for any of its descendants, and none of
\* them is in the result.
C2_FailedParentSkipsSubtree ==
    \A p \in Epics \cup Stories :
        Failed(p) => \A q \in Descendants(p) : q \notin contacted /\ q \notin Created /\ q \notin Attempted

\* the walk is over, and an epic that has stories was rejected by the tracker
C2_Witness ==
    /\ pc = "done"
    /\ \E p \in Epics : Failed(p) /\ p \in contacted /\ Descendants(p) # {}
    /\ results.epics # <<>>

\* C3: a failed creation aborts only the failed item's subtree: exactly one
\* error string naming the item's summary (when it has one) is appended for
\* it, and when the walk ends without cancellation every later sibling and
\* every later epic has been attempted.
C3_FailureAbortsOnlySubtree ==
    \A p \in Items :
        Failed(p) =>
            /\ Item(p).hasSummary => Count(results.errors, [kind |-> Level(p), summary |-> p]) = 1
            /\ (pc = "done" /\ ~Cancelled) =>
                    (LaterSiblings(p) \cup {q \in Epics : q[1] > p[1]}) \subseteq Attempted

\* the document has N epics of M stories of K subtasks each
StoriesPerEpic == IF Len(doc) = 0 THEN 0 ELSE Len(doc[1].stories)

SubtasksPerStory == IF StoriesPerEpic = 0 THEN 0 ELSE Len(doc[1].stories[1].subtasks)

Uniform ==
    \A e \in 1..Len(doc) :
        /\ Len(doc[e].stories) = StoriesPerEpic
        /\ \A s \in 1..Len(doc[e].stories) : Len(doc[e].stories[s].subtasks) = SubtasksPerStory

\* the key under which item p is in the result (0: it is not)
KeyOf(p) ==
    LET list == results[ListOf(Level(p))]
    IN  IF \E i \in 1..Len(list) : list[i].summary = p
        THEN list[CHOOSE i \in 1..Len(list) : list[i].summary = p].key
        ELSE 0

\* every request sent for the running item carries the key of the item's own parent
CarriesParentKey ==
    \A i \in 1..Len(calls) :
        /\ Level(calls[i].summary) = "story" =>
                /\ calls[i].link_field = epic_link_field
                /\ calls[i].link # 0
                /\ calls[i].link = KeyOf(Parent(calls[i].summary))
        /\ Level(calls[i].summary) = "subtask" =>
                /\ calls[i].parent # 0
                /\ calls[i].parent = KeyOf(Parent(calls[i].summary))

\* C4: for a document of N epics with M stories each with K subtasks each, when
\* the tracker has accepted every call and no check was positive, the result
\* holds N epics, N*M stories, N*M*K subtasks and no error, and every story and
\* subtask request carried the key of its own parent.
C4_RoundTrip ==
    (configured /\ Uniform /\ ~rejected /\ ~Cancelled) =>
        /\ CarriesParentKey
        /\ pc = "done" =>
              /\ Len(results.epics) = Len(doc)
              /\ Len(results.stories) = Len(doc) * StoriesPerEpic
              /\ Len(results.subtasks) = Len(doc) * StoriesPerEpic * SubtasksPerStory
              /\ results.errors = <<>>

\* C5: once a cancellation check was positive, no step of the request sends a
\* create or an update request any more, at whichever level the check was.
C5_NoCallAfterCancel ==
    [][Cancelled => /\ calls' = calls
                    /\ updates' = updates
                    /\ contacted' = contacted
                    /\ nextKey' = nextKey
                    /\ attempted' = attempted]_vars

\* the check before a story was positive, after its epic had been created
C5_Witness ==
    /\ Cancelled
    /\ Level(cur) = "story"
    /\ contacted # {}
    /\ results.epics # <<>>

\* C6: in the result create_issues returns, the cancellation error is there at
\* most once and then is the last error, and every issue the tracker created
\* for the request is in the result.
C6_CancelErrorLastNothingRolledBack ==
    pc = "done" =>
        /\ Count(results.errors, CancelledError) <= 1
        /\ Cancelled => results.errors[Len(results.errors)] = CancelledError
        /\ Keys(results.epics) \cup Keys(results.stories) \cup Keys(results.subtasks) = 1..(nextKey - 1)
        /\ Len(results.epics) + Len(results.stories) + Len(results.subtasks) = nextKey - 1

\* a cancelled request that had created issues and recorded a failure before
C6_Witness ==
    /\ pc = "done"
    /\ Cancelled
    /\ Len(results.errors) >= 2
    /\ results.epics # <<>>

\* the result of a request cancelled by the check before epic k + 1, every
\* tracker call having been accepted
CancelledAfterEpic(k) ==
    /\ pc = "done"
    /\ Summaries(results.epics) = {q \in Epics : q[1] <= k}
    /\ Len(results.epics) = k
    /\ Summaries(results.stories) = {q \in Stories : q[1] <= k}
    /\ Summaries(results.subtasks) = {q \in Subtasks : q[1] <= k}
    /\ results.errors = <<CancelledError>>
    /\ contacted = {q \in Items : q[1] <= k}
    /\ Attempted = {q \in Items : q[1] <= k}

\* C7: when every tracker call has been accepted and the client is found gone by
\* the check before epic k + 1, the request ends there: the result holds exactly
\* the first k epics with their stories and subtasks and one cancellation
\* error, and no call was made for a later epic; a finished request takes no
\* further step.
C7_CancelAfterKthEpic ==
    /\ [][(pc = "check" /\ Level(cur) = "epic" /\ request_obj /\ disconnected
           /\ configured /\ ~rejected /\ ~Cancelled /\ ~Aborted)
          => CancelledAfterEpic(cur[1] - 1)']_vars
    /\ [][pc # "done"]_vars

\* cancelled before the second epic, the first one created with a story
C7_Witness ==
    /\ CancelledAfterEpic(1)
    /\ Len(doc) > 1
    /\ results.stories # <<>>
    /\ ~rejected

\* C8: with a Request supplied, the connection is polled exactly once right
\* before each call of create_* (and once more by the check that cancels);
\* without one it is never polled; no step of a running creation ladder polls
\* or cancels, whatever the connection's state.
C8_PolledOncePerIssue ==
    /\ [](polls = IF request_obj
                  THEN attempted \o (IF Cancelled THEN <<cur>> ELSE <<>>)
                  ELSE <<>>)
    /\ [][Running => (polls' = polls /\ ~Cancelled')]_vars

\* a ladder went on with a fallback attempt although the client was gone, and
\* the check before the next item saw it
C8_Witness ==
    /\ pc = "done"
    /\ Cancelled
    /\ Len(calls) >= 2
    /\ calls[1].summary \in Created
    /\ Len(polls) = Len(attempted) + 1

\* C9: no create_* raises to create_issues.
C9_CreateNeverRaises == raised = None

\* the items without a 'summary' key
Malformed == {p \in Items : ~Item(p).hasSummary}

\* C10: one item without a summary does not invalidate the rest: when the walk
\* ends without cancellation, every item whose parent was created (and every
\* epic) has been attempted, and there are no more errors than failed items.
C10_MalformedItemIsLocal ==
    (pc = "done" /\ ~Cancelled /\ Cardinality(Malformed) <= 1) =>
        /\ \A p \in Items : (Level(p) = "epic" \/ Parent(p) \in Created) => p \in Attempted
        /\ Len(results.errors) = Cardinality({p \in Items : Failed(p)})

\* C11: an exception inside the walk never leaves create_issues: the handler
\* ends the request with the result, to which it appends exactly one error as
\* the last one; the epics, stories, subtasks and errors recorded before the
\* exception are kept, and every issue the tracker created is in the result.
C11_CreateIssuesNeverRaises ==
    /\ []((raised # None \/ Aborted) =>
            /\ pc = "done"
            /\ Count(results.errors, ExceptionError) = 1
            /\ results.errors[Len(results.errors)] = ExceptionError
            /\ Keys(results.epics) \cup Keys(results.stories) \cup Keys(results.subtasks) = 1..(nextKey - 1))
    /\ [][(Aborted' /\ ~Aborted) =>
            /\ results'.epics = results.epics
            /\ results'.stories = results.stories
            /\ results'.subtasks = results.subtasks
            /\ results'.errors = Append(results.errors, ExceptionError)]_vars

\* the handler caught a KeyError after an epic and a failure had been recorded
C11_Witness ==
    /\ Aborted
    /\ results.epics # <<>>
    /\ Len(results.errors) >= 2

\* the requests in `calls` are those of a run of create_epic
EpicCalls == calls # <<>> /\ Level(calls[1].summary) = "epic"

\* C12 (as stated): create_epic makes at most 4 tracker calls for one epic.
C12_AtMostFourCalls == EpicCalls => Len(calls) + updates <= 4

\* C12 (amended): for one epic create_epic sends at most one create request
\* per candidate (the discovered field and the three fixed identifiers) and
\* one without the field, then at most one update request per candidate; no
\* step of the ladder makes more than one tracker call.
C12_EpicCallsBounded ==
    /\ [](EpicCalls =>
            /\ Len(calls) <= Len(common_epic_name_fields) + 2
            /\ updates <= Len(common_epic_name_fields) + 1
            /\ updates > 0 => calls[Len(calls)].name_field = None)
    /\ [][Running => Len(calls') + updates' <= Len(calls) + updates + 1]_vars

\* an epic that took every create request and every update request of the ladder
C12_Witness ==
    /\ EpicCalls
    /\ Len(calls) = Len(common_epic_name_fields) + 2
    /\ updates = Len(common_epic_name_fields) + 1

\* the strategies of the epic ladder: every candidate identifier, and no identifier
EpicStrategies == Range(EpicNameCandidates) \cup {None}

\* the Epic-Name identifiers of the create requests sent for the running or last item
SentNameFields == {calls[i].name_field : i \in 1..Len(calls)}

\* C13: create_epic gives up on an epic (that has a summary, on a configured
\* service) only when no strategy of its ladder is accepted by the tracker:
\* when it has returned None, every strategy has been sent and was rejected.
C13_EpicFailsOnlyIfNoStrategyWorks ==
    \A p \in Epics :
        (configured /\ Item(p).hasSummary /\ Failed(p) /\ EpicCalls /\ calls[1].summary = p)
            => EpicStrategies \subseteq SentNameFields

\* C14: within the create requests for one epic no Epic-Name field identifier
\* is sent twice.
C14_NoIdentifierTwice ==
    EpicCalls => \A i, j \in 1..Len(calls) : i # j => calls[i].name_field # calls[j].name_field

\* create_epic is running
InEpicLadder == pc \in {"epic_try", "epic_plain", "epic_update", "epic_update_field"}

\* C15: a create request with an Epic-Name identifier F that is accepted leaves
\* epic_name_field = F; nothing outside create_epic changes epic_name_field;
\* and the first create request of an epic carries epic_name_field as it then
\* is, so that it repeats the strategy that worked for the epic before.
C15_WinningFieldCached ==
    /\ [][(pc = "epic_try" /\ nextKey' > nextKey)
            => epic_name_field' = calls'[Len(calls')].name_field]_vars
    /\ [][~InEpicLadder => epic_name_field' = epic_name_field]_vars
    /\ [][(pc = "epic_try" /\ calls = <<>> /\ calls' # <<>> /\ epic_name_field # None)
            => calls'[1].name_field = epic_name_field]_vars

\* the second epic's first request carries customfield_10012, which no
\* discovery returned: it was learnt from the first epic
C15_Witness ==
    /\ EpicCalls
    /\ calls[1].summary = <<2, 0, 0>>
    /\ calls[1].name_field = "customfield_10012"
    /\ Len(results.epics) >= 1
    /\ results.epics[1].summary = <<1, 0, 0>>

\* the order of the ladder as the specification gives it
LadderOrder ==
    (IF epic_name_field # None THEN <<epic_name_field>> ELSE <<>>)
        \o <<"customfield_10011", "customfield_10012", "customfield_10013">>

\* C16: the create requests of create_epic go out in the order discovered
\* field (if any), customfield_10011, customfield_10012, customfield_10013,
\* then the request without an Epic-Name field, which is the last one; no
\* create request follows an accepted one; and create_epic returns None (on a
\* configured service, for an epic with a summary) only after the request
\* without the field was rejected.
C16_EpicLadderOrder ==
    /\ [][(InEpicLadder /\ calls' # calls) =>
            /\ pc \in {"epic_try", "epic_plain"}
            /\ None \notin SentNameFields
            /\ calls' = Append(calls, calls'[Len(calls')])
            /\ calls'[Len(calls')].name_field =
                    IF pc = "epic_try" THEN LadderOrder[Len(calls) + 1] ELSE None
            /\ pc = "epic_plain" => Len(calls) >= 1
            /\ nextKey' > nextKey => pc' \notin {"epic_try", "epic_plain"}]_vars
    /\ [](\A p \in Epics :
            (configured /\ Item(p).hasSummary /\ Failed(p) /\ attempted[Len(attempted)] = p)
                => /\ EpicCalls
                   /\ calls[Len(calls)].name_field = None)

\* an epic given up after the whole ladder, led by a discovered identifier
C16_Witness ==
    /\ pc = "done"
    /\ results.epics = <<>>
    /\ EpicCalls
    /\ Len(calls) = 5
    /\ calls[1].name_field = "customfield_10020"
    /\ calls[4].name_field = "customfield_10013"
    /\ calls[5].name_field = None

\* the other available issue types whose names hold none of 'epic', 'subtask',
\* 'sub-task', in the order of the available list
Alternates ==
    SelectSeq(available_issue_types,
              LAMBDA t : ~HasEpicToken(t) /\ ~HasSubtaskToken(t) /\ t # story_issue_type)

\* C17: after a first request rejected for an invalid issue type, create_story
\* sends one request per alternate type, in the order of the available list,
\* before any fallback request; an accepted alternate becomes story_issue_type;
\* story_issue_type changes in no other way; and the first request of every
\* story carries story_issue_type as it then is.
C17_AlternateTypeAdopted ==
    /\ [](pc = "story_alt" =>
            /\ local.typeError
            /\ calls[1].issuetype = story_issue_type
            /\ Len(calls) <= Len(Alternates)
            /\ \A i \in 2..Len(calls) : calls[i].issuetype = Alternates[i - 1])
    /\ []((pc \in {"story_noprio", "story_last"} /\ local.typeError) =>
            /\ Len(calls) >= 1 + Len(Alternates)
            /\ \A i \in 1..Len(Alternates) : calls[i + 1].issuetype = Alternates[i])
    /\ [][(pc = "story_first" /\ pc' \in {"story_noprio", "story_last"}
              /\ local'.typeError) => Alternates = <<>>]_vars
    /\ [][(pc = "story_alt" /\ nextKey' > nextKey) =>
            /\ calls'[Len(calls')].issuetype = Alternates[Len(calls)]
            /\ story_issue_type' = Alternates[Len(calls)]
            /\ Len(results'.stories) = Len(results.stories) + 1]_vars
    /\ [][story_issue_type' # story_issue_type => (pc = "story_alt" /\ nextKey' > nextKey)]_vars
    /\ [][(pc = "story_first" /\ calls' # calls) => calls'[1].issuetype = story_issue_type]_vars

\* a story was created as a Task after Story was rejected, and the next
\* story's first request asks for a Task
C17_Witness ==
    /\ "Story" \in Range(available_issue_types)
    /\ story_issue_type = "Task"
    /\ results.stories # <<>>
    /\ calls # <<>>
    /\ calls[1].summary \notin Summaries(results.stories)
    /\ Level(calls[1].summary) = "story"
    /\ calls[1].issuetype = "Task"

\* create_story is running
InStoryLadder == pc \in {"story_first", "story_alt", "story_noprio", "story_last"}

\* the request just sent
Sent == calls'[Len(calls')]

\* C18: when the first request of a story was rejected with a priority error,
\* the first fallback is one request without priority that keeps the epic
\* link; it is sent once; the request with neither priority nor link is sent
\* only after that one was rejected; and create_story gives up only after the
\* request with neither was rejected.
C18_PriorityFallbacks ==
    /\ [][(pc \in {"story_first", "story_alt"} /\ InStoryLadder' /\ local'.priorityError
              /\ pc' \notin {"story_first", "story_alt"}) => pc' = "story_noprio"]_vars
    /\ [](pc = "story_noprio" => local.priorityError)
    /\ [][(pc = "story_noprio" /\ calls' # calls) =>
            /\ ~Sent.priority
            /\ Sent.link = epic_key /\ Sent.link # 0
            /\ Sent.link_field = epic_link_field /\ Sent.link_field # None
            /\ Sent.issuetype = story_issue_type
            /\ IF nextKey' > nextKey
               THEN Summaries(results'.stories) = Summaries(results.stories) \cup {cur}
               ELSE pc' = "story_last" /\ results' = results]_vars
    /\ [][(pc = "story_last" /\ calls' # calls) =>
            /\ ~Sent.priority
            /\ Sent.link = 0 /\ Sent.link_field = None
            /\ local.priorityError =>
                    (~calls[Len(calls)].priority /\ calls[Len(calls)].link = epic_key)
            /\ ~InStoryLadder'
            /\ (cur \notin Summaries(results'.stories)) <=> (nextKey' = nextKey)]_vars
    /\ [][(InStoryLadder /\ ~InStoryLadder' /\ cur \notin Summaries(results'.stories))
            => pc = "story_last"]_vars

\* a story with a priority, rejected for it, created by the retry without it
C18_Witness ==
    /\ Len(calls) = 2
    /\ calls[1].priority
    /\ ~calls[2].priority
    /\ calls[2].link # 0
    /\ calls[2].summary \in Summaries(results.stories)

\* the requests in `calls` are those of a run of create_story / create_subtask
StoryCalls == calls # <<>> /\ Level(calls[1].summary) = "story"

SubtaskCalls == calls # <<>> /\ Level(calls[1].summary) = "subtask"

\* how many available issue types are alternates to type t
AlternateCount(t) ==
    Cardinality({i \in 1..Len(available_issue_types) :
                    /\ ~HasEpicToken(available_issue_types[i])
                    /\ ~HasSubtaskToken(available_issue_types[i])
                    /\ available_issue_types[i] # t})

\* C19: for one story create_story sends at most 1 + (number of alternate
\* types) + 2 requests, and no step of its ladder sends more than one.
C19_StoryCallsBounded ==
    /\ [](StoryCalls => Len(calls) <= 1 + AlternateCount(calls[1].issuetype) + 2)
    /\ [][InStoryLadder => (Len(calls') <= Len(calls) + 1 /\ updates' = updates)]_vars

\* a story given up after the first request, two alternates and both fallbacks
C19_Witness ==
    /\ StoryCalls
    /\ AlternateCount(calls[1].issuetype) = 2
    /\ Len(calls) = 5
    /\ calls[1].summary \notin Summaries(results.stories)
    /\ pc = "done"

\* C20 (as stated): on a configured service every subtask create_subtask was
\* called for got exactly one tracker call.
C20_ExactlyOneCall ==
    \A p \in Subtasks :
        (configured /\ p \in Attempted /\ ~(p = cur /\ Running)) => p \in contacted

\* C20 (amended): create_subtask sends at most one request per subtask: one when
\* the service is configured and the subtask has a summary, none otherwise;
\* the request carries the key of the parent story; a rejected request is not
\* retried and the subtask is not created.
C20_SubtaskSingleAttempt ==
    /\ [](SubtaskCalls =>
            /\ Len(calls) = 1
            /\ calls[1].parent # 0
            /\ calls[1].parent = KeyOf(Parent(calls[1].summary))
            /\ calls[1].issuetype = subtask_issue_type)
    /\ [](\A p \in Subtasks :
            (p \in Attempted /\ ~(p = cur /\ Running)) =>
                (p \in contacted <=> (configured /\ Item(p).hasSummary)))
    /\ [][(pc = "subtask_create" /\ calls' # calls) =>
            /\ pc' # "subtask_create"
            /\ nextKey' = nextKey => cur \notin Summaries(results'.subtasks)]_vars

\* a subtask whose one request was rejected: create_subtask has returned None
C20_Witness ==
    /\ SubtaskCalls
    /\ Len(calls) = 1
    /\ calls[1].summary \notin Summaries(results.subtasks)
    /\ pc \notin {"subtask_create"}
    /\ results.stories # <<>>

\* the parts of the response that are, each by itself, a JSON object
ObjectsIn(s) ==
    {o \in {SubSeq(s, i, j) : i \in 1..Len(s), j \in 1..Len(s)} : loads(o).type = "object"}

\* extract_json has run
Extracted == pc \in {"ai_extracted", "ai_done"}

\* C21: when the response holds a valid JSON object, alone or between prose
\* (with or without braces) or code fences, and no JSON object other than it
\* and its own parts, extract_json returns that whole object.
C21_ExtractRecoversObject ==
    (Extracted /\ loads(payload).type = "object" /\ ObjectsIn(text) \subseteq ObjectsIn(payload))
        => structured_data = loads(payload)

\* C22: a response without any parseable JSON object (with its fence markers
\* or without them) ends run_ai_analysis with the one HTTPException of status
\* 500, never with a value.
C22_NoObjectIsAnError ==
    (pc = "ai_done" /\ ObjectsIn(text) = {} /\ ObjectsIn(cleaned(text)) = {})
        => (analysis.kind = "HTTPException" /\ analysis.status_code = 500)

\* the value has an 'epics' member that is a sequence
HasEpicsSequence(v) ==
    /\ v.type = "object"
    /\ \E i \in 1..Len(v.keys) : v.keys[i] = "e" /\ v.kids[i].type = "array"

\* C23: whatever run_ai_analysis returns is a JSON object whose 'epics' member
\* is a sequence.
C23_ReturnedValueIsValidated ==
    (pc = "ai_done" /\ analysis.kind = "return") => HasEpicsSequence(structured_data)

\* ------------------------------------------------------------------- C24
\* C24: a service that is not configured makes no tracker call. Without the
\* credentials the constructor leaves the service unconfigured and probes
\* nothing; on an unconfigured service no discovery, create or update call is
\* made, create_issues creates nothing, and the create-from-file endpoint
\* answers "not configured" with neither the analysis nor the tracker called.
C24_NoCallWithoutTracker ==
    /\ ~credentials => (~configured /\ probes = <<>>)
    /\ ~configured =>
          /\ probes = <<>>
          /\ calls = <<>> /\ updates = 0 /\ contacted = {} /\ nextKey = 1
          /\ results.epics = <<>> /\ results.stories = <<>> /\ results.subtasks = <<>>
          /\ analysis = NotAnalysed
          /\ response \in {NoResponse, NotConfiguredResponse}

\* without credentials the endpoint has answered and create_issues has walked
\* a document with an epic
C24_Witness ==
    /\ ~credentials
    /\ response = NotConfiguredResponse
    /\ pc = "done"
    /\ attempted # <<>>

\* ------------------------------------------------------------------- C25
Asked(name) == \E i \in 1..Len(probes) : probes[i].probe = name

Answer(name) == probes[CHOOSE i \in 1..Len(probes) : probes[i].probe = name].answer

\* the probe was made, did not raise and found a field
Hit(name) == Asked(name) /\ ~Answer(name).raise /\ Answer(name).found # None

\* the constructor has returned, with a client for the tracker
Built == pc \notin {"new", "name_fields", "name_meta", "link_fields", "link_meta", "types"} /\ probes # <<>>

\* C25: no raising probe aborts the discovery. Once the constructor of a
\* service with a client has returned, whatever probes raised: the service is
\* configured; every phase ran (the fields were listed for the name and for
\* the link, the metadata was asked wherever the listing found nothing, the
\* types were listed); a probe that raised counts as one that found nothing,
\* so epic_name_field is the first identifier found or None, epic_link_field
\* the first identifier found or the default, and the available types are the
\* listed ones or none.
C25_DiscoveryNeverAborts ==
    Built =>
        /\ configured
        /\ Asked("name: get_all_fields") /\ Asked("link: get_all_fields") /\ Asked("types: issue_createmeta")
        /\ Asked("name: issue_createmeta") <=> ~Hit("name: get_all_fields")
        /\ Asked("link: issue_createmeta") <=> ~Hit("link: get_all_fields")
        /\ epic_name_field = IF Hit("name: get_all_fields") THEN Answer("name: get_all_fields").found
                             ELSE IF Hit("name: issue_createmeta") THEN Answer("name: issue_createmeta").found
                             ELSE None
        /\ epic_link_field = IF Hit("link: get_all_fields") THEN Answer("link: get_all_fields").found
                             ELSE IF Hit("link: issue_createmeta") THEN Answer("link: issue_createmeta").found
                             ELSE DefaultEpicLinkField
        /\ available_issue_types = IF Answer("types: issue_createmeta").raise THEN <<>>
                                   ELSE Answer("types: issue_createmeta").found

\* every one of the five probes raised and the service is configured, with no
\* name field, the default link field and no types
C25_Witness ==
    /\ pc = "constructed"
    /\ Len(probes) = 5
    /\ \A i \in 1..5 : probes[i].answer.raise
    /\ configured
    /\ epic_name_field = None
    /\ epic_link_field = DefaultEpicLinkField
    /\ available_issue_types = <<>>

\* ------------------------------------------------------------------- C26
\* some available type has this name, whatever the case of the letters
Matches(name) == \E i \in 1..Len(available_issue_types) : Lower(available_issue_types[i]) = Lower(name)

\* a name with none of 'epic', 'subtask', 'sub-task' in it
Plain(name) == ~HasEpicToken(name) /\ ~HasSubtaskToken(name)

FixedList == <<"Story", "Task", "User Story", "Feature", "Bug">>

\* C26: the story type the constructor detects is given by the first rule that
\* applies to the available types: the configured name "Story" if it matches
\* one; else the first name of Story, Task, User Story, Feature, Bug that
\* matches one; else the first available type with a plain name; else the
\* configured name.
C26_StoryTypeByFirstRule ==
    Built =>
        LET rule1 == Matches(JIRA_STORY_ISSUE_TYPE)
            rule2 == \E k \in 1..Len(FixedList) : Matches(FixedList[k])
            rule3 == \E i \in 1..Len(available_issue_types) : Plain(available_issue_types[i])
        IN  /\ rule1 => story_issue_type = JIRA_STORY_ISSUE_TYPE
            /\ (~rule1 /\ rule2) =>
                  \E k \in 1..Len(FixedList) :
                      /\ story_issue_type = FixedList[k]
                      /\ Matches(FixedList[k])
                      /\ \A j \in 1..(k - 1) : ~Matches(FixedList[j])
            /\ (~rule1 /\ ~rule2 /\ rule3) =>
                  \E i \in 1..Len(available_issue_types) :
                      /\ story_issue_type = available_issue_types[i]
                      /\ Plain(available_issue_types[i])
                      /\ \A j \in 1..(i - 1) : ~Plain(available_issue_types[j])
            /\ (~rule1 /\ ~rule2 /\ ~rule3) => story_issue_type = JIRA_STORY_ISSUE_TYPE

\* the tracker lists Feature before Task and the fixed list decides for Task
C26_Witness ==
    /\ Built
    /\ available_issue_types = <<"Epic", "Feature", "Task">>
    /\ story_issue_type = "Task"

\* ------------------------------------------------------------------- C27
\* C27: once a story create request that carried the default Epic Link
\* identifier was rejected, no later story create request carries that
\* identifier. (Of the requests of one create_story every one but the last
\* was rejected.)
C27_DefaultLinkDiscarded ==
    \A i, j \in 1..Len(calls) :
        (i < j /\ Level(calls[i].summary) = "story" /\ calls[i].link_field = DefaultEpicLinkField)
            => calls[j].link_field # DefaultEpicLinkField

\* ------------------------------------------------------------------- C28
\* this step sent a create request and the tracker accepted it (it gave a key)
AcceptedCreate == Len(calls') = Len(calls) + 1 /\ nextKey' = nextKey + 1

\* this step sent an update request for the candidate the update loop is at
\* and the tracker accepted it
AcceptedUpdate == pc \in {"epic_update", "epic_update_field"} /\ updates' = updates + 1 /\ last_accepted'

\* a hint that is set stays set, and the hints no ladder learns stay as they are
HintsKept ==
    /\ epic_name_field # None => epic_name_field' # None
    /\ story_issue_type # None => story_issue_type' # None
    /\ UNCHANGED <<epic_link_field, available_issue_types, subtask_issue_type>>

\* story_issue_type becomes only the type of an accepted alternate-type request
StoryTypeLearned ==
    story_issue_type' # story_issue_type =>
        /\ pc = "story_alt"
        /\ AcceptedCreate
        /\ calls'[Len(calls')].issuetype = story_issue_type'

\* C28 as stated: epic_name_field becomes only the identifier carried by a
\* create request the tracker has just accepted, story_issue_type only the
\* alternate type of one, and no hint is reset.
C28_LearnedFromCreatesOnly ==
    [][/\ epic_name_field' # epic_name_field =>
              (AcceptedCreate /\ calls'[Len(calls')].name_field = epic_name_field')
       /\ StoryTypeLearned
       /\ HintsKept]_vars

\* C28: epic_name_field becomes only the identifier carried by a create
\* request the tracker has just accepted, or the identifier the update request
\* that followed a creation without the field carried and the tracker did not
\* reject; story_issue_type becomes only the alternate type of a create request
\* the tracker has just accepted; a hint that is set is never reset, and no
\* other hint changes.
C28_HintsLearnedFromSuccess ==
    [][/\ epic_name_field' # epic_name_field =>
              \/ AcceptedCreate /\ calls'[Len(calls')].name_field = epic_name_field'
              \/ AcceptedUpdate /\ local.candidates[local.i] = epic_name_field'
       /\ StoryTypeLearned
       /\ HintsKept]_vars

\* the first epic of the run was created without the field and an update of
\* it taught the service an identifier no probe had found
C28_Witness ==
    /\ Len(attempted) = 1
    /\ Len(results.epics) = 1
    /\ updates > 0
    /\ calls[Len(calls)].name_field = None
    /\ epic_name_field = "customfield_10012"

\* ------------------------------------------------------------------- C30
\* p comes before q in the depth-first order of the document: an epic before
\* its stories, a story before its subtasks, siblings as they are listed
Before(p, q) ==
    \/ p[1] < q[1]
    \/ p[1] = q[1] /\ p[2] < q[2]
    \/ p[1] = q[1] /\ p[2] = q[2] /\ p[3] < q[3]

\* the issues of a result list are in the order the tracker created them, which
\* is the order of the document
InCreationOrder(list) ==
    \A i, j \in 1..Len(list) : i < j => (list[i].key < list[j].key /\ Before(list[i].summary, list[j].summary))

Owner(k) == IF k >= since THEN me ELSE CHOOSE w \in {1, 2} : <<k, w>> \in owner

OwnedBy(w) == {k \in 1..(nextKey - 1) : Owner(k) = w}

ResultKeys(r) == Keys(r.epics) \cup Keys(r.stories) \cup Keys(r.subtasks)

\* the epic create_epic has created and not yet returned
Pending == IF pc \in {"epic_update", "epic_update_field"} THEN {local.key} ELSE {}

\* the result of each request holds exactly the issues its own calls created
OwnIssuesOnly ==
    /\ ResultKeys(results) \cup Pending = OwnedBy(me)
    /\ ResultKeys(other.results) = OwnedBy(3 - me)

\* the issue of this request's list that was created for item p
IssueOf(list, p) == {list[i].key : i \in {j \in 1..Len(list) : list[j].summary = p}}

\* a create request that leaves carries no parent but the one this request
\* created for the parent item
OwnParent ==
    (me' = me /\ Len(calls') = Len(calls) + 1) =>
        LET req == calls'[Len(calls')]
        IN  /\ req.link # 0 => (req.link \in IssueOf(results.epics, Parent(cur)) /\ Owner(req.link) = me)
            /\ Level(cur) = "subtask" =>
                  (req.parent \in IssueOf(results.stories, Parent(cur)) /\ Owner(req.parent) = me)

\* a step of the running request leaves the locals of the other request alone
\* and, of the service, changes at most epic_name_field and story_issue_type;
\* a switch changes nothing at all
SharedHintsOnly ==
    /\ me' = me => (other' = other /\ UNCHANGED <<configured, epic_link_field, available_issue_types, subtask_issue_type>>)
    /\ me' # me => (other' = Frame /\ Frame' = other /\ UNCHANGED service)

\* C29: two create_issues requests on one JiraService, in every interleaving
\* the event loop allows: the result of each request holds exactly the issues
\* its own calls created; a story request carries only the key of the epic the
\* same request created for its parent, a subtask request the key of the story
\* the same request created; and a request changes nothing of the other but
\* the epic_name_field and story_issue_type they share on the service.
C29_RequestsIsolated == []OwnIssuesOnly /\ [][OwnParent /\ SharedHintsOnly]_vars

\* both requests are done, every item of both was created, and the tracker
\* created the epic of the second request between the epic and the story of
\* the first
C29_Witness ==
    /\ pc = "done" /\ other.pc = "done"
    /\ me = 1
    /\ Len(results.subtasks) = 1
    /\ Len(other.results.stories) = 1
    /\ results.epics[1].key < other.results.epics[1].key
    /\ other.results.epics[1].key < results.stories[1].key

\* ------------------------------------------------------------------- C31
\* the substring from the first '{' to the last '}' of the text (<<>>: there
\* is no such pair)
Braced ==
    LET opens == {i \in 1..Len(text) : text[i] = "{"}
        closes == {i \in 1..Len(text) : text[i] = "}"}
    IN  IF \E i \in opens, j \in closes : i < j /\ (\A o \in opens : i <= o) /\ (\A c \in closes : c <= j)
        THEN LET i == CHOOSE i \in opens : \A o \in opens : i <= o
                 j == CHOOSE j \in closes : \A c \in closes : c <= j
             IN  SubSeq(text, i, j)
        ELSE <<>>

\* the candidates of strategy 3 that parse, as indices of the list of matches
GoodCandidates(matches) == {i \in 1..Len(matches) : decodes(matches[i])}

\* the three strategies in their order: what the first one that parses gives
FirstSuccess ==
    LET matches == findall(text, 1)
        good == GoodCandidates(matches)
        braced == Braced
        stripped == cleaned(text)
    IN  IF decodes(stripped) THEN loads(stripped)
        ELSE IF decodes(braced) THEN loads(braced)
        ELSE IF good # {}
        THEN loads(matches[CHOOSE i \in good : \A j \in good : j <= i])
        ELSE NoValue

EveryStrategyFails ==
    ~decodes(cleaned(text)) /\ ~decodes(Braced) /\ GoodCandidates(findall(text, 1)) = {}

Recorded(q) == q \in Created \/ \E i \in 1..Len(results.errors) : results.errors[i].summary = q

\* C32: when create_issues has returned, the result holds a record for every
\* story and subtask under an item whose creation failed.
C32_DescendantsRecorded ==
    pc = "done" => \A p \in Items : Failed(p) => \A q \in Descendants(p) : Recorded(q)

\* ------------------------------------------------------------------- C33
\* C33: in both endpoints, the response made from the result of create_issues
\* has success = TRUE exactly when the errors of the result are empty, and,
\* with or without errors, it lists the issues of the result, which are all
\* the issues the tracker created for the request.
C33_SuccessIffNoErrors ==
    pc = "responded" =>
        /\ response.success <=> results.errors = <<>>
        /\ response.errors = results.errors
        /\ response.created_issues.epics = results.epics
        /\ response.created_issues.stories = results.stories
        /\ response.created_issues.subtasks = results.subtasks
        /\ ResultKeys(response.created_issues) = 1..(nextKey - 1)

\* create_jira_tickets answers a request that was cancelled after an epic was
\* created and a story had failed: success is FALSE and the epic is listed
C33_Witness ==
    /\ pc = "responded"
    /\ endpoint = "create-tickets"
    /\ Cancelled
    /\ Len(results.errors) = 2
    /\ ~response.success
    /\ Len(response.created_issues.epics) = 1

\* ------------------------------------------------------------------- C34
\* C34: a story create request the tracker accepts carries the key of the
\* parent epic under epic_link_field, unless it is the last-resort request;
\* the last-resort request carries neither link nor priority, and the story it
\* creates is appended to the stories of the result; and whatever the tracker
\* said when it rejected the earlier requests, a story is given up only after
\* the last-resort request was sent.
C34_LinkedUnlessLastResort ==
    [][Level(cur) = "story" /\ Len(calls') = Len(calls) + 1 =>
          LET req == calls'[Len(calls')]
          IN  /\ (AcceptedCreate /\ pc # "story_last") =>
                    /\ req.link_field = epic_link_field
                    /\ req.link = epic_key
                    /\ req.link \in IssueOf(results.epics, Parent(cur))
              /\ pc = "story_last" =>
                    /\ req.link_field = None /\ req.link = 0 /\ ~req.priority
                    /\ AcceptedCreate =>
                          results'.stories = Append(results.stories, [key |-> nextKey, self |-> nextKey, summary |-> cur])
              /\ Len(results'.errors) > Len(results.errors) => pc = "story_last"]_vars

\* the first request for a story with a priority was rejected for a reason
\* that concerns neither the type nor the priority; the second request, the
\* last resort, created the story without link and priority
C34_Witness ==
    /\ Len(calls) = 2
    /\ Level(calls[2].summary) = "story"
    /\ Item(calls[2].summary).priority
    /\ calls[1].link # 0 /\ calls[1].priority
    /\ calls[2].link = 0 /\ ~calls[2].priority
    /\ calls[2].summary \in Created

\* ------------------------------------------------------------------- C35
\* create_epic is in the update loop: the request without the field was accepted
InUpdateLoop == pc \in {"epic_update", "epic_update_field"}

\* C35: once the request without the Epic-Name field was accepted, whatever
\* the updates answer (done, rejected, no such method), create_epic records no
\* error and ends by returning the epic with the key the tracker gave it; the
\* first update the tracker accepts ends the loop.
C35_UpdateNeverLosesEpic ==
    [][InUpdateLoop =>
          /\ results'.errors = results.errors
          /\ IF InUpdateLoop' /\ ~(updates' = updates + 1 /\ last_accepted')
             THEN results' = results
             ELSE /\ ~InUpdateLoop'
                  /\ results'.epics = Append(results.epics, [key |-> local.key, self |-> local.key, summary |-> cur])
                  /\ epic_key' = local.key]_vars

\* an epic was created without the field, the tracker rejected three updates
\* or more and none was accepted, and the epic is in the result
C35_Witness ==
    /\ ~InUpdateLoop
    /\ calls # <<>>
    /\ Level(calls[1].summary) = "epic"
    /\ calls[Len(calls)].name_field = None
    /\ updates >= 3
    /\ ~last_accepted
    /\ calls[1].summary \in Created

\* ---------------------------------------------------------------- C36
\* a create request that carried an Epic-Name candidate has just been rejected
CandidateRejected == pc = "epic_try" /\ Len(calls') = Len(calls) + 1 /\ ~last_accepted'

\* the rejection named neither a field error nor a required field
OtherError(msg) == "field error" \notin msg /\ "required" \notin msg

AttemptFailed == (calls' # calls \/ updates' # updates) /\ ~last_accepted'

\* C37: no step of create_issues, create_epic, create_story or create_subtask
\* changes whether the service is configured (its client and project_key),
\* epic_link_field, subtask_issue_type or available_issue_types; and a step in
\* which the tracker rejects a request (a create of any level, or an update
\* of the Epic Name) leaves epic_name_field and story_issue_type as they were.
C37_DiscoveredSchemaIsFrozen ==
    [][/\ configured' = configured
       /\ epic_link_field' = epic_link_field
       /\ subtask_issue_type' = subtask_issue_type
       /\ available_issue_types' = available_issue_types
       /\ AttemptFailed => /\ epic_name_field' = epic_name_field
                           /\ story_issue_type' = story_issue_type]_vars

\* an alternate story type has just been rejected and the remembered type is
\* still the one that was discovered
C37_Witness ==
    /\ Level(cur) = "story"
    /\ ~last_accepted
    /\ Len(calls) >= 2
    /\ calls[Len(calls)].summary = cur
    /\ calls[Len(calls)].issuetype \notin {story_issue_type, None}
    /\ story_issue_type # None
    /\ epic_name_field # None

\* ---------------------------------------------------------------- C38
\* the tracker has not been asked to create or to update anything
NoTrackerCall == calls = <<>> /\ updates = 0 /\ contacted = {} /\ nextKey = 1

\* the two responses of create_jira_tickets_from_file to a closed connection
DisconnectedBefore == response = Refused("Client disconnected before processing")

DisconnectedAfter == response = Refused("Client disconnected after AI analysis")

\* C38: in create-from-file, a disconnect seen by the check before the analysis
\* ends the request there, with run_ai_analysis never called and no request
\* sent to the tracker; a disconnect seen by the check after the analysis ends
\* it with no request sent to the tracker; both responses are final and list
\* no created issue.
C38_DisconnectStopsTheEndpoint ==
    /\ [](/\ DisconnectedBefore =>
              /\ endpoint = "create-from-file"
              /\ pc = "answered"
              /\ analysis = NotAnalysed
              /\ doc = <<>>
              /\ NoTrackerCall
              /\ response.created_issues = NoIssues
              /\ ~response.success
          /\ DisconnectedAfter =>
              /\ endpoint = "create-from-file"
              /\ pc = "answered"
              /\ analysis.kind = "return"
              /\ NoTrackerCall
              /\ response.created_issues = NoIssues
              /\ ~response.success)
    /\ [][/\ (pc = "before_analysis" /\ disconnected) => (pc' = "answered" /\ DisconnectedBefore')
          /\ (pc = "after_analysis" /\ disconnected) => (pc' = "answered" /\ DisconnectedAfter')
          /\ pc = "answered" => pc' = "answered"]_vars

\* the analysis returned epics, the client was gone when it returned, and the
\* request was answered without a single call to the tracker
C38_Witness ==
    /\ DisconnectedAfter
    /\ disconnected
    /\ Len(doc) > 1
    /\ NoTrackerCall

\* ---------------------------------------------------------------- C39
\* how often the item p is named in a list of the result
Entries(list, p) == Cardinality({i \in 1..Len(list) : list[i].summary = p})

\* how often p is listed at its own level, and at the two other levels
ListedOwn(p) == Entries(results[ListOf(Level(p))], p)

ListedAnywhere(p) == Entries(results.epics, p) + Entries(results.stories, p) + Entries(results.subtasks, p)

\* the 'Failed to create <level>: <summary>' errors about p, and all errors about p
FailedErrors(p) == Cardinality({i \in 1..Len(results.errors) : results.errors[i] = [kind |-> Level(p), summary |-> p]})

ErrorsAbout(p) == Cardinality({i \in 1..Len(results.errors) : results.errors[i].summary = p})

\* create_issues walks into p: an epic, or an item whose parent was created
ParentCreated(p) == Level(p) = "epic" \/ Parent(p) \in Created

\* create_issues returned from the end of its loops
FinishedNormally == pc = "done" /\ ~Cancelled /\ ~Aborted

\* C39: when create_issues returns without a cancellation and without an
\* exception, every item whose parent was created (every epic included) is
\* either listed once, in the list of its level and nowhere else, with no
\* error about it, or listed nowhere and named by exactly one 'Failed to
\* create' error of its level; the errors are as many as the create operations
\* that returned None; and no key of a created issue occurs twice in the
\* three lists.
C39_EveryWalkedItemOnce ==
    FinishedNormally =>
        /\ \A p \in Items :
              ParentCreated(p) =>
                 /\ p \in Attempted
                 /\ \/ ListedOwn(p) = 1 /\ ListedAnywhere(p) = 1 /\ ErrorsAbout(p) = 0
                    \/ ListedAnywhere(p) = 0 /\ FailedErrors(p) = 1 /\ ErrorsAbout(p) = 1
        /\ Len(results.errors) = Cardinality({p \in Items : Failed(p)})
        /\ Cardinality(ResultKeys(results))
              = Len(results.epics) + Len(results.stories) + Len(results.subtasks)

\* a walk that ended normally with a created epic, a failed item under it and
\* another created item
C39_Witness ==
    /\ FinishedNormally
    /\ Len(results.epics) = 1
    /\ Len(results.errors) = 1
    /\ Len(results.stories) = 1
    /\ \E p \in Items : Level(p) # "epic" /\ Failed(p)

\* ---------------------------------------------------------------- C40
\* the other request is parked outside every creation ladder
OtherBetweenIssues == other.pc \in {"idle", "check", "done"} /\ other.local = NoLocal

\* C40: on a shared service, a request that is not running is always parked
\* at the start, at a cancellation check between two issues or at the end of
\* create_issues, never inside create_epic, create_story or create_subtask;
\* while the ladder of an issue runs, every step belongs to the same request
\* and for the same issue, and the other request sends nothing to the tracker:
\* the calls of two requests interleave at the checks only.
C40_LadderIsAtomic ==
    /\ [](OtherBetweenIssues)
    /\ [][/\ me' # me => (~Running /\ ~Running')
          /\ Running =>
                /\ me' = me
                /\ other' = other
                /\ Running' => cur' = cur]_vars

\* the running request is between two attempts for one issue while the other
\* request, which has already called the tracker, waits at a check
C40_Witness ==
    /\ Running
    /\ Len(calls) >= 2
    /\ calls[Len(calls)].summary = cur
    /\ calls[Len(calls) - 1].summary = cur
    /\ ~last_accepted
    /\ other.pc = "check"
    /\ other.calls # <<>>
    /\ me = 2

====
